---- MODULE Spec2Model ----
(***************************************************************************)
(* GMV Max report scripts (Google Apps Script): the paginated report       *)
(* fetchers, the window planner, the totals aggregator and the sheet       *)
(* sinks, as state machines over the values the scripts compute.           *)
(***************************************************************************)
EXTENDS Integers, Sequences, FiniteSets, TLC

VARIABLES
    cfg,          \* the inputs of the run: the Config row, the script properties, the edited constants
    scriptTz,     \* the script's own time zone (the manifest's), in which new Date(...) reads local times
    pc,           \* "start", "fetching" (a request is in flight), "done", "failed" (an error left the run)
    windows,      \* batch driver: the planner's output
    pairs,        \* batch driver: the (advertiser, store) pairs
    wi, pi,       \* batch driver: the indices of the window and the pair being fetched
    page,         \* the page counter of the pagination loop
    allRows,      \* the flattened rows gathered so far
    totalMetrics, \* single-query scripts: the captured totals object (null until captured)
    totalsAgg,    \* batch driver and sumTotals_: the running accumulator
    dataSheet,    \* the data tab: a grid, as a sequence of rows of cells
    totalsSheet,  \* the totals tab
    errSheet,     \* the error-log tab
    merged,       \* history: the totals objects merged into totalsAgg, in order
    sinkLog,      \* history: the sheet operations performed, in order
    reqLog,       \* history: the requests issued, in order
    respLog,      \* history: the responses received, in order (respLog[i] answers reqLog[i])
    sinkHist      \* history of the sink on its own: what was written last and before

cfgVars == <<cfg, scriptTz>>
runVars == <<pc, windows, pairs, wi, pi, page, allRows, totalMetrics, totalsAgg>>
sheetVars == <<dataSheet, totalsSheet, errSheet>>
histVars == <<merged, sinkLog, reqLog, respLog, sinkHist>>
vars == <<cfgVars, runVars, sheetVars, histVars>>

-----------------------------------------------------------------------------
(* JavaScript values.  A value is a record [t, k, p, q, s]: t is the type   *)
(* tag; a number is k = "fin" with the rational p/q in lowest terms         *)
(* (q > 0), or k = "nan", "inf", "-inf"; a string is the sequence s of its  *)
(* text fragments.  Strings the code parses are written one character per   *)
(* fragment; identifiers the code only copies are one fragment.             *)

Abs(n) == IF n < 0 THEN -n ELSE n

RECURSIVE Gcd(_, _)
Gcd(a, b) == IF b = 0 THEN a ELSE Gcd(b, a % b)

RECURSIVE Pow10(_)
Pow10(n) == IF n = 0 THEN 1 ELSE 10 * Pow10(n - 1)

Fin(p, q) ==
    LET g == Gcd(Abs(p), Abs(q))
        sgn == IF q < 0 THEN -1 ELSE 1
    IN [t |-> "number", k |-> "fin", p |-> sgn * (p \div g), q |-> sgn * (q \div g), s |-> <<>>]

Int2Js(n) == Fin(n, 1)
NaN == [t |-> "number", k |-> "nan", p |-> 0, q |-> 1, s |-> <<>>]
PosInf == [t |-> "number", k |-> "inf", p |-> 1, q |-> 1, s |-> <<>>]
NegInf == [t |-> "number", k |-> "-inf", p |-> -1, q |-> 1, s |-> <<>>]
Undefined == [t |-> "undefined", k |-> "nan", p |-> 0, q |-> 1, s |-> <<>>]
Null == [t |-> "null", k |-> "fin", p |-> 0, q |-> 1, s |-> <<>>]
Str(s) == [t |-> "string", k |-> "nan", p |-> 0, q |-> 1, s |-> s]
EmptyString == Str(<<>>)

isNaN(n) == n.k = "nan"
isFinite(n) == n.k = "fin"
IsZero(n) == n.k = "fin" /\ n.p = 0
Gt0(n) == n.k = "inf" \/ (n.k = "fin" /\ n.p > 0)

\* a + b on numbers
JsAdd(a, b) ==
    IF isNaN(a) \/ isNaN(b) THEN NaN
    ELSE IF ~isFinite(a) /\ ~isFinite(b) THEN (IF a.k = b.k THEN a ELSE NaN)
    ELSE IF ~isFinite(a) THEN a
    ELSE IF ~isFinite(b) THEN b
    ELSE Fin(a.p * b.q + b.p * a.q, a.q * b.q)

\* a / b on numbers, b finite and positive (the only divisions the code makes)
JsDiv(a, b) ==
    IF isNaN(a) \/ ~isFinite(b) \/ b.p = 0 THEN NaN
    ELSE IF ~isFinite(a) THEN a
    ELSE Fin(a.p * b.q, a.q * b.p)

\* a >= b on numbers (false when either is NaN)
JsGe(a, b) ==
    IF isNaN(a) \/ isNaN(b) THEN FALSE
    ELSE IF a.k = "inf" \/ b.k = "-inf" THEN TRUE
    ELSE IF a.k = "-inf" \/ b.k = "inf" THEN FALSE
    ELSE a.p * b.q >= b.p * a.q

\* truthiness: undefined, null, 0, NaN and "" are falsy
Truthy(v) ==
    CASE v.t = "undefined" -> FALSE
      [] v.t = "null" -> FALSE
      [] v.t = "number" -> ~(isNaN(v) \/ IsZero(v))
      [] v.t = "string" -> v.s # <<>>
      [] OTHER -> TRUE

Digits == {"0", "1", "2", "3", "4", "5", "6", "7", "8", "9"}
DigitVal(c) ==
    CASE c = "0" -> 0 [] c = "1" -> 1 [] c = "2" -> 2 [] c = "3" -> 3 [] c = "4" -> 4
      [] c = "5" -> 5 [] c = "6" -> 6 [] c = "7" -> 7 [] c = "8" -> 8 [] c = "9" -> 9

\* the run of digits of s from index i: its value, its length, the index after it
RECURSIVE ScanDigits(_, _, _, _)
ScanDigits(s, i, val, cnt) ==
    IF i <= Len(s) /\ s[i] \in Digits
    THEN ScanDigits(s, i + 1, 10 * val + DigitVal(s[i]), cnt + 1)
    ELSE [val |-> val, cnt |-> cnt, next |-> i]

RECURSIVE SkipSpaces(_, _)
SkipSpaces(s, i) == IF i <= Len(s) /\ s[i] = " " THEN SkipSpaces(s, i + 1) ELSE i

InfinityWord == <<"I", "n", "f", "i", "n", "i", "t", "y">>

\* the decimal literal of s that starts at index i1 (sign already read), and
\* the index after it; cnt = 0 when there is none
ScanDecimal(s, i1) ==
    LET ip == ScanDigits(s, i1, 0, 0)
        dot == ip.next <= Len(s) /\ s[ip.next] = "."
        fp == IF dot THEN ScanDigits(s, ip.next + 1, 0, 0)
              ELSE [val |-> 0, cnt |-> 0, next |-> ip.next]
    IN [p |-> ip.val * Pow10(fp.cnt) + fp.val, q |-> Pow10(fp.cnt),
        cnt |-> ip.cnt + fp.cnt,
        next |-> IF dot /\ (ip.cnt + fp.cnt > 0) THEN fp.next ELSE ip.next]

\* parseFloat(string): leading blanks, a sign, then "Infinity" or the longest
\* decimal prefix; anything after it is ignored; NaN when there is no prefix.
\* (Exponents are not modelled.)
parseFloat(s) ==
    LET i0 == SkipSpaces(s, 1)
        neg == i0 <= Len(s) /\ s[i0] = "-"
        i1 == IF i0 <= Len(s) /\ s[i0] \in {"-", "+"} THEN i0 + 1 ELSE i0
        d == ScanDecimal(s, i1)
    IN IF Len(s) >= i1 + 7 /\ SubSeq(s, i1, i1 + 7) = InfinityWord
       THEN (IF neg THEN NegInf ELSE PosInf)
       ELSE IF d.cnt = 0 THEN NaN
       ELSE Fin((IF neg THEN -1 ELSE 1) * d.p, d.q)

\* Number(x): a string must be a numeral as a whole ("" is 0); null is 0;
\* undefined is NaN
Number(x) ==
    CASE x.t = "number" -> x
      [] x.t = "null" -> Int2Js(0)
      [] x.t = "undefined" -> NaN
      [] x.t = "string" ->
            LET i0 == SkipSpaces(x.s, 1)
                neg == i0 <= Len(x.s) /\ x.s[i0] = "-"
                i1 == IF i0 <= Len(x.s) /\ x.s[i0] \in {"-", "+"} THEN i0 + 1 ELSE i0
                d == ScanDecimal(x.s, i1)
            IN IF i0 > Len(x.s) THEN Int2Js(0)
               ELSE IF SubSeq(x.s, i1, Len(x.s)) = InfinityWord
                    THEN (IF neg THEN NegInf ELSE PosInf)
               ELSE IF d.cnt = 0 \/ SkipSpaces(x.s, d.next) <= Len(x.s) THEN NaN
               ELSE Fin((IF neg THEN -1 ELSE 1) * d.p, d.q)
      [] OTHER -> NaN

-----------------------------------------------------------------------------
(* JavaScript objects: the keys in insertion order (what Object.keys        *)
(* returns) and the value of each key.                                      *)

EmptyObj == [keys |-> <<>>, val |-> <<>>]
Has(o, key) == key \in DOMAIN o.val
Get(o, key) == IF Has(o, key) THEN o.val[key] ELSE Undefined
Put(o, key, v) ==
    IF Has(o, key) THEN [o EXCEPT !.val[key] = v]
    ELSE [keys |-> Append(o.keys, key), val |-> (key :> v) @@ o.val]
Obj1(k1, v1) == Put(EmptyObj, k1, v1)
Obj2(k1, v1, k2, v2) == Put(Obj1(k1, v1), k2, v2)

-----------------------------------------------------------------------------
(* Totals aggregator                                                        *)

num_(x) ==
    LET n == IF x.t = "string" THEN parseFloat(x.s) ELSE Number(x)
    IN IF isNaN(n) THEN NaN ELSE n

\* num_(out[k]) || 0
OrZero(n) == IF Truthy(n) THEN n ELSE Int2Js(0)

\* a faulty variant: the numeric value replaces the accumulator's, not added
SumKeyOverwrite(out, add, k) ==
    IF isFinite(num_(Get(add, k))) THEN num_(Get(add, k))
    ELSE IF ~Has(out, k) THEN Get(add, k)
    ELSE Get(out, k)

\* a faulty variant: a non-numeric value replaces the one carried so far
SumKeyLastWins(out, add, k) ==
    IF isFinite(num_(Get(add, k))) THEN JsAdd(OrZero(num_(Get(out, k))), num_(Get(add, k)))
    ELSE Get(add, k)

\* one iteration of the forEach of sumTotals_: what key k of add leaves in
\* out[k] (k is a key of add)
SumKey(out, add, k) ==
    LET v == num_(Get(add, k))
    IN IF isFinite(v) THEN JsAdd(OrZero(num_(Get(out, k))), v)
       ELSE IF ~Has(out, k) THEN Get(add, k)
       ELSE Get(out, k)

\* the keys of add are distinct, so each iteration sets its own key: the
\* keys of agg stay in place and the new ones follow in the order of add
sumTotals_(a, add) ==
    [keys |-> a.keys \o SelectSeq(add.keys, LAMBDA k : ~Has(a, k)),
     val |-> [k \in DOMAIN a.val \cup DOMAIN add.val |->
                IF Has(add, k) THEN SumKey(a, add, k) ELSE a.val[k]]]

-----------------------------------------------------------------------------
(* Dates.  A calendar date 'yyyy-MM-dd' is its day number; an instant (a    *)
(* Date object) is a number of hours since day 0, 00:00 UTC.  Time zones    *)
(* are fixed offsets from UTC (none of the modelled zones has daylight      *)
(* saving).                                                                 *)

HoursPerDay == 24

TimeZones == {"America/Bogota", "UTC", "Asia/Jakarta", "Asia/Tokyo"}
UtcOffset(tz) ==
    CASE tz = "America/Bogota" -> -5
      [] tz = "UTC" -> 0
      [] tz = "Asia/Jakarta" -> 7
      [] tz = "Asia/Tokyo" -> 9

\* new Date(dateStr + 'T00:00:00'): midnight of that date in the script's zone
NewDateLocal(day) == day * HoursPerDay - UtcOffset(scriptTz)

\* new Date(dateStr + 'T00:00:00Z'): midnight of that date in UTC
NewDateUtc(day) == day * HoursPerDay

\* Utilities.formatDate(d, tz, 'yyyy-MM-dd'): the date that instant has in tz
formatDate(d, tz) == (d + UtcOffset(tz)) \div HoursPerDay

Min(a, b) == IF a <= b THEN a ELSE b

\* the span added to a window's start: curStart.getTime() + 29 * msDay
WindowSpanDays == 29

\* the while loop of buildDailyWindows_
RECURSIVE WindowLoop(_, _, _, _)
WindowLoop(curStart, end, tz, out) ==
    IF curStart <= end
    THEN LET curEnd == Min(end, curStart + WindowSpanDays * HoursPerDay)
         IN WindowLoop(curEnd + HoursPerDay, end, tz,
                       Append(out, <<formatDate(curStart, tz), formatDate(curEnd, tz)>>))
    ELSE out

\* a faulty variant: a do-while loop, one window whatever the range
buildDailyWindowsOnce_(startDateStr, endDateStr, tz) ==
    IF NewDateLocal(startDateStr) <= NewDateLocal(endDateStr)
    THEN WindowLoop(NewDateLocal(startDateStr), NewDateLocal(endDateStr), tz, <<>>)
    ELSE <<<<formatDate(NewDateLocal(startDateStr), tz), formatDate(NewDateLocal(endDateStr), tz)>>>>

buildDailyWindows_(startDateStr, endDateStr, tz) ==
    WindowLoop(NewDateLocal(startDateStr), NewDateLocal(endDateStr), tz, <<>>)

\* a faulty variant: a range of 31 days passes
validateDailyRangeLoose_(startDateStr, endDateStr) ==
    ((NewDateUtc(endDateStr) - NewDateUtc(startDateStr)) \div HoursPerDay) + 1 > 31

\* validateDailyRange_: TRUE when it throws
validateDailyRange_(startDateStr, endDateStr) ==
    LET days == ((NewDateUtc(endDateStr) - NewDateUtc(startDateStr)) \div HoursPerDay) + 1
    IN days > 30

\* validateHourlyRange_: TRUE when it throws
validateHourlyRange_(startDateStr, endDateStr) == startDateStr # endDateStr

-----------------------------------------------------------------------------
(* Sheets.  A sheet is a grid: a sequence of rows, each a sequence of       *)
(* cells; a cell holds a value, "" when blank.  A tab that does not exist   *)
(* yet is created empty on first use (getSheetByName(..) || insertSheet).   *)

Max(a, b) == IF a >= b THEN a ELSE b

\* what a cell holds after null or undefined was written to it
Cell(v) == IF v.t \in {"null", "undefined"} THEN EmptyString ELSE v

\* a faulty variant: the tab is not cleared
KeepContents(sh) == sh

\* sh.clearContents()
clearContents(sh) == <<>>

\* sh.getRange(r0, 1, Len(vals), m).setValues(vals)
setValues(sh, r0, m, vals) ==
    LET n == Len(vals)
        OldRow(r) == IF r <= Len(sh) THEN sh[r] ELSE <<>>
    IN [r \in 1..Max(Len(sh), r0 + n - 1) |->
          IF r >= r0 /\ r < r0 + n
          THEN [c \in 1..Max(Len(OldRow(r)), m) |->
                  IF c <= m THEN Cell(vals[r - r0 + 1][c]) ELSE OldRow(r)[c]]
          ELSE OldRow(r)]

BlankRow(row) == \A c \in 1..Len(row) : row[c] = EmptyString

\* sh.getLastRow(): the last row that has content, 0 on an empty sheet
getLastRow(sh) ==
    LET used == {r \in 1..Len(sh) : ~BlankRow(sh[r])}
    IN IF used = {} THEN 0 ELSE CHOOSE r \in used : \A r2 \in used : r2 <= r

\* sh.appendRow(row)
appendRow(sh, row) == setValues(sh, getLastRow(sh) + 1, Len(row), <<row>>)

\* a name written as a cell
Name(n) == Str(<<n>>)
HeaderCells(columns) == [c \in 1..Len(columns) |-> Name(columns[c])]

\* r[h] ?? ''
Coalesce(v) == IF v.t \in {"null", "undefined"} THEN EmptyString ELSE v

\* r[c] !== undefined ? r[c] : ''
DefinedOrEmpty(v) == IF v.t = "undefined" THEN EmptyString ELSE v

\* writeRowsToSheet_ of the single-query scripts (the same in each file)
writeRowsToSheet_(sh, rows, headerOrder) ==
    LET cleared == clearContents(sh)
        headed == setValues(cleared, 1, Len(headerOrder), <<HeaderCells(headerOrder)>>)
        data == [i \in 1..Len(rows) |->
                    [c \in 1..Len(headerOrder) |-> Coalesce(Get(rows[i], headerOrder[c]))]]
    IN IF Len(data) > 0 THEN setValues(headed, 2, Len(headerOrder), data) ELSE headed

\* writeRowsToSheet_ of the batch driver's file
writeRowsToSheet_Batch(sh, rows, columns) ==
    LET cleared == clearContents(sh)
        headed == setValues(cleared, 1, Len(columns), <<HeaderCells(columns)>>)
        data == [i \in 1..Len(rows) |->
                    [c \in 1..Len(columns) |-> DefinedOrEmpty(Get(rows[i], columns[c]))]]
    IN IF Len(rows) = 0 THEN headed ELSE setValues(headed, 2, Len(columns), data)

\* writeTotalsSheet_: the keys, then their values.  With no key the first
\* getRange(1, 1, 1, 0) throws, after the sheet was cleared.
writeTotalsThrows(totals) == Len(totals.keys) = 0
writeTotalsSheet_(sh, totals) ==
    LET cleared == clearContents(sh)
        keys == totals.keys
        headed == setValues(cleared, 1, Len(keys), <<HeaderCells(keys)>>)
    IN IF writeTotalsThrows(totals) THEN cleared
       ELSE setValues(headed, 2, Len(keys), <<[c \in 1..Len(keys) |-> totals.val[keys[c]]]>>)

ErrorKeys == <<"ts", "advertiser_id", "store_id", "window", "message">>

\* a faulty variant: the field is copied with no default
NoDefault(v) == v

\* v || ''
OrEmpty(v) == IF Truthy(v) THEN v ELSE EmptyString

\* a faulty variant: the log is started afresh at every call
logErrorRowFresh_(sh, obj) ==
    <<HeaderCells(ErrorKeys), [c \in 1..Len(ErrorKeys) |-> OrEmpty(Get(obj, ErrorKeys[c]))]>>

logErrorRow_(sh, obj) ==
    LET headed == IF getLastRow(sh) = 0
                  THEN setValues(sh, 1, Len(ErrorKeys), <<HeaderCells(ErrorKeys)>>)
                  ELSE sh
    IN appendRow(headed, [c \in 1..Len(ErrorKeys) |-> OrEmpty(Get(obj, ErrorKeys[c]))])

-----------------------------------------------------------------------------
(* The report scripts.  Each builds its flat row from the same kinds of     *)
(* source: the configured ids, a field of item.dimensions, a field of       *)
(* item.metrics.                                                            *)

SingleVariants == {"ProductCampaignDaily", "ProductCampaignHourly", "LiveCampaignHourly",
                   "ProductDaily", "CreativeStatuses"}
BatchVariant == "LiveDailySince"
DailyVariants == {"ProductCampaignDaily", "ProductDaily"}
HourlyVariants == {"ProductCampaignHourly", "LiveCampaignHourly"}

FromAdvertiser(col) == <<col, "advertiser", col>>
FromStore(col) == <<col, "store", col>>
FromCampaign(col) == <<col, "campaign", col>>
Dim(col) == <<col, "dimension", col>>
Metric(col) == <<col, "metric", col>>
MetricAs(col, field) == <<col, "metric", field>>

CampaignAttrs == <<Metric("operation_status"), Metric("campaign_name"), Metric("schedule_type"),
                   Metric("schedule_start_time"), Metric("schedule_end_time"), Metric("target_roi_budget"),
                   Metric("bid_type"), Metric("max_delivery_budget"), Metric("roas_bid")>>
LiveAttrs == <<Metric("operation_status"), Metric("campaign_name"), Metric("tt_account_name"),
               Metric("tt_account_profile_image_url"), Metric("identity_id"), Metric("schedule_type"),
               Metric("schedule_start_time"), Metric("schedule_end_time"), Metric("bid_type"),
               Metric("target_roi_budget"), Metric("max_delivery_budget"), Metric("roas_bid")>>
Performance == <<Metric("cost"), Metric("net_cost"), Metric("orders"), Metric("cost_per_order"),
                 Metric("gross_revenue"), Metric("roi")>>
LiveEngagement == <<Metric("live_views"), Metric("cost_per_live_view"),
                    MetricAs("live_10s_views", "10_second_live_views"),
                    MetricAs("cost_per_10s_live_view", "cost_per_10_second_live_view"),
                    Metric("live_follows")>>

\* the object literal pushed to allRows: <<column, kind of source, field>>
RowSpec(variant) ==
    CASE variant = "ProductCampaignDaily" ->
            <<FromAdvertiser("advertiser_id"), FromStore("store_id"), Dim("stat_time_day"), Dim("campaign_id")>>
            \o CampaignAttrs \o Performance
      [] variant = "ProductCampaignHourly" ->
            <<FromAdvertiser("advertiser_id"), FromStore("store_id"), Dim("stat_time_hour"), Dim("campaign_id")>>
            \o CampaignAttrs \o Performance
      [] variant = "LiveCampaignHourly" ->
            <<FromAdvertiser("advertiser_id"), FromStore("store_id"), Dim("stat_time_hour"), Dim("campaign_id")>>
            \o LiveAttrs \o Performance \o LiveEngagement
      [] variant = "ProductDaily" ->
            <<FromAdvertiser("advertiser_id"), FromStore("store_id"), FromCampaign("campaign_id"), Dim("stat_time_day"),
              Dim("item_group_id"), Metric("product_name"), Metric("product_image_url"),
              Metric("product_status"), Metric("bid_type"), Metric("cost"), Metric("orders"),
              Metric("cost_per_order"), Metric("gross_revenue"), Metric("roi")>>
      [] variant = "CreativeStatuses" ->
            <<FromAdvertiser("advertiser_id"), FromStore("store_id"), Dim("campaign_id"), Dim("item_group_id"),
              Dim("item_id"), Metric("creative_delivery_status"), Metric("cost"), Metric("orders"),
              Metric("cost_per_order"), Metric("gross_revenue"), Metric("roi"), Metric("product_impressions"),
              Metric("product_clicks"), Metric("product_click_rate"), Metric("ad_click_rate"),
              Metric("ad_conversion_rate"), Metric("ad_video_view_rate_2s"), Metric("ad_video_view_rate_6s"),
              Metric("ad_video_view_rate_p25"), Metric("ad_video_view_rate_p50"),
              Metric("ad_video_view_rate_p75"), Metric("ad_video_view_rate_p100")>>
      [] variant = "LiveDailySince" ->
            <<FromAdvertiser("advertiser_id"), FromStore("store_id"), Dim("stat_time_day"), Dim("campaign_id")>>
            \o LiveAttrs \o Performance \o LiveEngagement

\* the column order handed to writeRowsToSheet_
Columns(variant) ==
    CASE variant = "ProductCampaignDaily" ->
            <<"advertiser_id", "store_id", "stat_time_day", "campaign_id", "operation_status",
              "campaign_name", "schedule_type", "schedule_start_time", "schedule_end_time",
              "target_roi_budget", "bid_type", "max_delivery_budget", "roas_bid", "cost",
              "net_cost", "orders", "cost_per_order", "gross_revenue", "roi">>
      [] variant = "ProductCampaignHourly" ->
            <<"advertiser_id", "store_id", "stat_time_hour", "campaign_id", "operation_status",
              "campaign_name", "schedule_type", "schedule_start_time", "schedule_end_time",
              "target_roi_budget", "bid_type", "max_delivery_budget", "roas_bid", "cost",
              "net_cost", "orders", "cost_per_order", "gross_revenue", "roi">>
      [] variant = "LiveCampaignHourly" ->
            <<"advertiser_id", "store_id", "stat_time_hour", "campaign_id", "operation_status",
              "campaign_name", "tt_account_name", "tt_account_profile_image_url", "identity_id",
              "schedule_type", "schedule_start_time", "schedule_end_time", "bid_type",
              "target_roi_budget", "max_delivery_budget", "roas_bid", "cost", "net_cost",
              "orders", "cost_per_order", "gross_revenue", "roi", "live_views",
              "cost_per_live_view", "live_10s_views", "cost_per_10s_live_view", "live_follows">>
      [] variant = "ProductDaily" ->
            <<"advertiser_id", "store_id", "campaign_id", "stat_time_day", "item_group_id",
              "product_name", "product_image_url", "product_status", "bid_type", "cost",
              "orders", "cost_per_order", "gross_revenue", "roi">>
      [] variant = "CreativeStatuses" ->
            <<"advertiser_id", "store_id", "campaign_id", "item_group_id", "item_id",
              "creative_delivery_status", "cost", "orders", "cost_per_order", "gross_revenue",
              "roi", "product_impressions", "product_clicks", "product_click_rate",
              "ad_click_rate", "ad_conversion_rate", "ad_video_view_rate_2s",
              "ad_video_view_rate_6s", "ad_video_view_rate_p25", "ad_video_view_rate_p50",
              "ad_video_view_rate_p75", "ad_video_view_rate_p100">>
      [] variant = "LiveDailySince" ->
            <<"advertiser_id", "store_id", "stat_time_day", "campaign_id", "operation_status",
              "campaign_name", "tt_account_name", "tt_account_profile_image_url", "identity_id",
              "schedule_type", "schedule_start_time", "schedule_end_time", "bid_type",
              "target_roi_budget", "max_delivery_budget", "roas_bid", "cost", "net_cost",
              "orders", "cost_per_order", "gross_revenue", "roi", "live_views",
              "cost_per_live_view", "live_10s_views", "cost_per_10s_live_view", "live_follows">>

\* an optional sub-object of a response: absent (or null), or the object
NoObj == [present |-> FALSE, obj |-> EmptyObj]
SomeObj(o) == [present |-> TRUE, obj |-> o]

\* x || {}
OrEmptyObj(x) == IF x.present THEN x.obj ELSE EmptyObj

\* the value of one field of the flat row
FieldValue(spec, advertiser_id, store_id, item) ==
    LET d == OrEmptyObj(item.dimensions)
        m == OrEmptyObj(item.metrics)
    IN CASE spec[2] = "advertiser" -> advertiser_id
         [] spec[2] = "store" -> store_id
         [] spec[2] = "campaign" -> cfg.campaign_id
         [] spec[2] = "dimension" -> OrEmpty(Get(d, spec[3]))
         [] spec[2] = "metric" -> OrEmpty(Get(m, spec[3]))

\* the body of list.forEach: the object literal pushed for one item (its
\* keys in the order written, each with its value)
FlatRow(variant, advertiser_id, store_id, item) ==
    LET specs == RowSpec(variant)
        SpecOf(col) == specs[CHOOSE i \in 1..Len(specs) : specs[i][1] = col]
    IN [keys |-> [i \in 1..Len(specs) |-> specs[i][1]],
        val |-> [col \in {specs[i][1] : i \in 1..Len(specs)} |->
                    FieldValue(SpecOf(col), advertiser_id, store_id, item)]]

\* list.forEach(item => allRows.push({...}))
FlattenList(variant, advertiser_id, store_id, list) ==
    [i \in 1..Len(list) |-> FlatRow(variant, advertiser_id, store_id, list[i])]

-----------------------------------------------------------------------------
(* Requests and responses                                                   *)

\* the query of one UrlFetchApp.fetch; w and p name the window and the pair
\* it belongs to (1, 1 in the single-query scripts)
Request(w, p, advertiser_id, store_id, start_date, end_date, pg, enable) ==
    [w |-> w, p |-> p, advertiser_id |-> advertiser_id, store_id |-> store_id,
     start_date |-> start_date, end_date |-> end_date, page |-> pg,
     enable_total_metrics |-> enable]

\* a response: the HTTP status, then the envelope's code and message, the
\* list and page_info.total_page of body.data (a missing data or page_info
\* reads as an empty list and an undefined total_page), and total_metrics
Response(status, code, message, list, total_page, total_metrics) ==
    [status |-> status, code |-> code, message |-> message, list |-> list,
     total_page |-> total_page, total_metrics |-> total_metrics]

OkResponse(list, total_page, total_metrics) ==
    Response(200, 0, "OK", list, total_page, total_metrics)
HttpError == Response(500, 0, "Internal Server Error", <<>>, Undefined, NoObj)
ApiError == Response(200, 40105, "Access token is incorrect or has been revoked.", <<>>,
                     Undefined, NoObj)

\* res.getResponseCode() !== 200, or body.code !== 0: the fetch throws
FetchThrows(resp) == resp.status # 200 \/ resp.code # 0

\* the text of the Error thrown
ErrorMessage(resp) ==
    IF resp.status # 200
    THEN Str(<<"HTTP ", ToString(resp.status), " - ", resp.message>>)
    ELSE Str(<<"API code ", ToString(resp.code), " - ", resp.message>>)

\* a faulty variant: page >= Number(pageInfo.total_page), no default of 1
IsLastPageNoDefault(pg, resp) == JsGe(Int2Js(pg), Number(resp.total_page))

\* a faulty variant: page > Number(pageInfo.total_page || 1), one page too many
IsLastPageStrict(pg, resp) ==
    ~JsGe(Number(IF Truthy(resp.total_page) THEN resp.total_page ELSE Int2Js(1)), Int2Js(pg))

\* page >= Number(pageInfo.total_page || 1)
IsLastPage(pg, resp) ==
    JsGe(Int2Js(pg), Number(IF Truthy(resp.total_page) THEN resp.total_page ELSE Int2Js(1)))

-----------------------------------------------------------------------------
(* The single-query scripts: runProductGmvMaxCampaignDaily,                 *)
(* runProductGmvMaxCampaignHourly, runLiveGmvMaxCampaignHourly,             *)
(* runProductGmvMaxProductDaily, runProductGmvMaxCreativeStatuses.          *)

\* readConfig_, the range check of the script and getAccessToken_: TRUE
\* when one of them throws
ConfigThrows ==
    \/ cfg.config_error
    \/ ~Truthy(cfg.advertiser_id)
    \/ ~Truthy(cfg.store_id)
    \/ cfg.variant \in DailyVariants /\ validateDailyRange_(cfg.start_date, cfg.end_date)
    \/ cfg.variant \in HourlyVariants /\ validateHourlyRange_(cfg.start_date, cfg.end_date)
    \/ ~cfg.has_token

SingleRequest(pg) ==
    Request(1, 1, cfg.advertiser_id, cfg.store_id, cfg.start_date, cfg.end_date, pg,
            cfg.enable_total_metrics)

\* a faulty variant: a later totals object replaces the captured one
CaptureLatest(captured, resp) ==
    IF cfg.enable_total_metrics /\ resp.total_metrics.present
    THEN resp.total_metrics
    ELSE captured

\* if (cfg.enable_total_metrics === true && body.total_metrics && !totalMetrics)
CaptureTotals(captured, resp) ==
    IF cfg.enable_total_metrics /\ resp.total_metrics.present /\ ~captured.present
    THEN resp.total_metrics
    ELSE captured

\* the run up to its first request
StartSingle ==
    /\ pc = "start"
    /\ cfg.variant \in SingleVariants
    /\ IF ConfigThrows
       THEN pc' = "failed" /\ reqLog' = reqLog
       ELSE pc' = "fetching" /\ reqLog' = <<SingleRequest(1)>>
    /\ UNCHANGED <<cfgVars, windows, pairs, wi, pi, page, allRows, totalMetrics, totalsAgg,
                   sheetVars, merged, sinkLog, respLog, sinkHist>>

MaxRequests == 3   \* responses a run receives

\* a faulty variant: the rows gathered so far are written before the error
\* leaves the script
SinglePagePartial(resp) ==
    /\ pc = "fetching"
    /\ cfg.variant \in SingleVariants
    /\ Len(respLog) < MaxRequests
    /\ FetchThrows(resp)
    /\ pc' = "failed"
    /\ dataSheet' = writeRowsToSheet_(dataSheet, allRows, Columns(cfg.variant))
    /\ sinkLog' = Append(sinkLog, "writeRowsToSheet_")
    /\ respLog' = Append(respLog, resp)
    /\ UNCHANGED <<cfgVars, windows, pairs, wi, pi, page, allRows, totalMetrics, totalsAgg,
                   totalsSheet, errSheet, merged, reqLog, sinkHist>>

\* a response that makes the fetch throw: the error leaves the script
SinglePageError(resp) ==
    /\ pc = "fetching"
    /\ cfg.variant \in SingleVariants
    /\ Len(respLog) < MaxRequests
    /\ FetchThrows(resp)
    /\ pc' = "failed"
    /\ respLog' = Append(respLog, resp)
    /\ UNCHANGED <<cfgVars, windows, pairs, wi, pi, page, allRows, totalMetrics, totalsAgg,
                   sheetVars, merged, sinkLog, reqLog, sinkHist>>

\* a page that is not the last: its rows are kept and the next page is asked
SinglePageMore(resp) ==
    /\ pc = "fetching"
    /\ cfg.variant \in SingleVariants
    /\ Len(respLog) < MaxRequests
    /\ ~FetchThrows(resp)
    /\ ~IsLastPage(page, resp)
    /\ totalMetrics' = CaptureTotals(totalMetrics, resp)
    /\ allRows' = allRows \o FlattenList(cfg.variant, cfg.advertiser_id, cfg.store_id, resp.list)
    /\ page' = page + 1
    /\ reqLog' = Append(reqLog, SingleRequest(page + 1))
    /\ respLog' = Append(respLog, resp)
    /\ UNCHANGED <<cfgVars, pc, windows, pairs, wi, pi, totalsAgg, sheetVars, merged, sinkLog,
                   sinkHist>>

\* the writes that end a single-query script: the data tab, then the totals
\* tab when totals were asked for and captured
SingleWrite(rows, captured, writesTotals) ==
    /\ totalMetrics' = captured
    /\ allRows' = rows
    /\ dataSheet' = writeRowsToSheet_(dataSheet, rows, Columns(cfg.variant))
    /\ totalsSheet' = IF writesTotals THEN writeTotalsSheet_(totalsSheet, captured.obj)
                      ELSE totalsSheet
    /\ sinkLog' = sinkLog \o <<"writeRowsToSheet_">>
                  \o (IF writesTotals THEN <<"writeTotalsSheet_">> ELSE <<>>)
    /\ pc' = IF writesTotals /\ writeTotalsThrows(captured.obj) THEN "failed" ELSE "done"

SingleFinish(rows, captured) ==
    SingleWrite(rows, captured, cfg.enable_total_metrics /\ captured.present)

\* the last page: the loop ends and the sheets are written
SinglePageLast(resp) ==
    /\ pc = "fetching"
    /\ cfg.variant \in SingleVariants
    /\ Len(respLog) < MaxRequests
    /\ ~FetchThrows(resp)
    /\ IsLastPage(page, resp)
    /\ SingleFinish(allRows \o FlattenList(cfg.variant, cfg.advertiser_id, cfg.store_id,
                                            resp.list),
                    CaptureTotals(totalMetrics, resp))
    /\ respLog' = Append(respLog, resp)
    /\ UNCHANGED <<cfgVars, windows, pairs, wi, pi, page, totalsAgg, errSheet, merged, reqLog,
                   sinkHist>>

-----------------------------------------------------------------------------
(* The batch driver: runLiveGmvMaxCampaignDaily_SinceJune1_Simple           *)

TZ == "Asia/Jakarta"
\* '2025-06-01': the day the day numbers count from
START_FIXED == 0
ENABLE_TOTAL_METRICS == TRUE

\* a faulty variant: the first store is paired with every advertiser whatever
\* the lengths
BuildPairsBroadcast(advertiser_ids, store_ids) ==
    IF Len(store_ids) >= 1
    THEN [ok |-> TRUE,
          pairs |-> [i \in 1..Len(advertiser_ids) |->
                        [advertiser_id |-> advertiser_ids[i], store_id |-> store_ids[1]]]]
    ELSE [ok |-> FALSE, pairs |-> <<>>]

\* the pairing of ADVERTISER_IDS with STORE_IDS; <<>> with ok = FALSE when it throws
BuildPairs(advertiser_ids, store_ids) ==
    IF Len(store_ids) = 1
    THEN [ok |-> TRUE,
          pairs |-> [i \in 1..Len(advertiser_ids) |->
                        [advertiser_id |-> advertiser_ids[i], store_id |-> store_ids[1]]]]
    ELSE IF Len(advertiser_ids) = Len(store_ids)
    THEN [ok |-> TRUE,
          pairs |-> [i \in 1..Len(advertiser_ids) |->
                        [advertiser_id |-> advertiser_ids[i], store_id |-> store_ids[i]]]]
    ELSE [ok |-> FALSE, pairs |-> <<>>]

BatchRequest(ws, ps, w, p, pg) ==
    Request(w, p, ps[p].advertiser_id, ps[p].store_id, ws[w][1], ws[w][2], pg,
            ENABLE_TOTAL_METRICS)

\* if (isFinite(cost) && cost > 0 && isFinite(gross)) totalsAgg.roi = gross / cost
RoiFromCost(tot, cost, gross) ==
    IF isFinite(cost) /\ Gt0(cost) /\ isFinite(gross)
    THEN Put(tot, "roi", JsDiv(gross, cost))
    ELSE tot

\* else if ((!isFinite(cost) || cost === 0) && isFinite(net) && net > 0 && isFinite(gross))
\*     totalsAgg.roi = gross / net
RoiFromNetCost(tot, cost, gross, netCost) ==
    IF (~isFinite(cost) \/ IsZero(cost)) /\ isFinite(netCost) /\ Gt0(netCost) /\ isFinite(gross)
    THEN Put(tot, "roi", JsDiv(gross, netCost))
    ELSE tot

RoiFrom(tot, cost, gross) ==
    RoiFromNetCost(RoiFromCost(tot, cost, gross), cost, gross, num_(Get(tot, "net_cost")))

\* a faulty variant: the summed roi is left as it is
NoRecompute(tot) == tot

\* the recomputation of roi from the summed totals
RecomputeRoi(tot) ==
    RoiFrom(tot, num_(Get(tot, "cost")), num_(Get(tot, "gross_revenue")))

\* if (ENABLE_TOTAL_METRICS && body.total_metrics) totalsAgg = sumTotals_(...)
MergeTotals(tot, resp) ==
    IF ENABLE_TOTAL_METRICS /\ resp.total_metrics.present
    THEN sumTotals_(tot, resp.total_metrics.obj)
    ELSE tot

MergedAfter(resp) ==
    IF ENABLE_TOTAL_METRICS /\ resp.total_metrics.present
    THEN Append(merged, resp.total_metrics.obj)
    ELSE merged

\* the writes that end the batch driver: the data tab, then the totals tab
\* when the accumulator has a key
BatchWrite(rows, final, log, writesTotals) ==
    /\ allRows' = rows
    /\ totalsAgg' = final
    /\ dataSheet' = writeRowsToSheet_Batch(dataSheet, rows, Columns(BatchVariant))
    /\ totalsSheet' = IF writesTotals THEN writeTotalsSheet_(totalsSheet, final)
                      ELSE totalsSheet
    /\ sinkLog' = log \o <<"writeRowsToSheet_">>
                  \o (IF writesTotals THEN <<"writeTotalsSheet_">> ELSE <<>>)
    /\ pc' = "done"

BatchWriteTotals(rows, final, log) ==
    BatchWrite(rows, final, log, ENABLE_TOTAL_METRICS /\ Len(final.keys) > 0)

\* what follows the two forEach loops: the roi, then the sheets
BatchFinish(rows, tot, log) == BatchWriteTotals(rows, RecomputeRoi(tot), log)

\* a faulty variant: the loops nested the other way, the same pair in the
\* next window first
BatchAdvancePairsOuter(rows, tot, log) ==
    IF wi < Len(windows)
    THEN /\ wi' = wi + 1 /\ pi' = pi /\ page' = 1
         /\ reqLog' = Append(reqLog, BatchRequest(windows, pairs, wi + 1, pi, 1))
         /\ allRows' = rows /\ totalsAgg' = tot /\ sinkLog' = log
         /\ UNCHANGED <<pc, dataSheet, totalsSheet>>
    ELSE IF pi < Len(pairs)
    THEN /\ wi' = 1 /\ pi' = pi + 1 /\ page' = 1
         /\ reqLog' = Append(reqLog, BatchRequest(windows, pairs, 1, pi + 1, 1))
         /\ allRows' = rows /\ totalsAgg' = tot /\ sinkLog' = log
         /\ UNCHANGED <<pc, dataSheet, totalsSheet>>
    ELSE /\ BatchFinish(rows, tot, log)
         /\ UNCHANGED <<wi, pi, page, reqLog>>

\* the end of one (window, pair) combination: the next pair, else the next
\* window, else the end of the loops
BatchAdvance(rows, tot, log) ==
    IF pi < Len(pairs)
    THEN /\ wi' = wi /\ pi' = pi + 1 /\ page' = 1
         /\ reqLog' = Append(reqLog, BatchRequest(windows, pairs, wi, pi + 1, 1))
         /\ allRows' = rows /\ totalsAgg' = tot /\ sinkLog' = log
         /\ UNCHANGED <<pc, dataSheet, totalsSheet>>
    ELSE IF wi < Len(windows)
    THEN /\ wi' = wi + 1 /\ pi' = 1 /\ page' = 1
         /\ reqLog' = Append(reqLog, BatchRequest(windows, pairs, wi + 1, 1, 1))
         /\ allRows' = rows /\ totalsAgg' = tot /\ sinkLog' = log
         /\ UNCHANGED <<pc, dataSheet, totalsSheet>>
    ELSE /\ BatchFinish(rows, tot, log)
         /\ UNCHANGED <<wi, pi, page, reqLog>>

\* the run up to its first request, or to its end when there is none to make
StartBatch ==
    /\ pc = "start"
    /\ cfg.variant = BatchVariant
    /\ LET ws == buildDailyWindows_(START_FIXED, cfg.today, TZ)
           built == BuildPairs(cfg.advertiser_ids, cfg.store_ids)
       IN IF ~cfg.has_token \/ ~built.ok
          THEN /\ pc' = "failed"
               /\ UNCHANGED <<windows, pairs, wi, pi, page, allRows, totalsAgg, sheetVars,
                              sinkLog, reqLog>>
          ELSE /\ windows' = ws
               /\ pairs' = built.pairs
               /\ IF Len(ws) > 0 /\ Len(built.pairs) > 0
                  THEN /\ pc' = "fetching"
                       /\ reqLog' = <<BatchRequest(ws, built.pairs, 1, 1, 1)>>
                       /\ UNCHANGED <<wi, pi, page, allRows, totalsAgg, sheetVars, sinkLog>>
                  ELSE /\ BatchFinish(allRows, totalsAgg, sinkLog)
                       /\ UNCHANGED <<wi, pi, page, errSheet, reqLog>>
    /\ UNCHANGED <<cfgVars, totalMetrics, merged, respLog, sinkHist>>

\* a faulty variant: the window is named by its first day alone
ErrorRowStartOnly(resp) ==
    [keys |-> ErrorKeys,
     val |-> [k \in {"ts", "advertiser_id", "store_id", "window", "message"} |->
                CASE k = "ts" -> Name("now")
                  [] k = "advertiser_id" -> pairs[pi].advertiser_id
                  [] k = "store_id" -> pairs[pi].store_id
                  [] k = "window" -> Str(<<ToString(windows[wi][1])>>)
                  [] k = "message" -> ErrorMessage(resp)]]

\* the object handed to logErrorRow_ by the catch block
ErrorRow(resp) ==
    [keys |-> ErrorKeys,
     val |-> [k \in {"ts", "advertiser_id", "store_id", "window", "message"} |->
                CASE k = "ts" -> Name("now")
                  [] k = "advertiser_id" -> pairs[pi].advertiser_id
                  [] k = "store_id" -> pairs[pi].store_id
                  [] k = "window" -> Str(<<ToString(windows[wi][1]), "..",
                                           ToString(windows[wi][2])>>)
                  [] k = "message" -> ErrorMessage(resp)]]

\* a faulty variant: the error is logged and then leaves the script
BatchPageAbort(resp) ==
    /\ pc = "fetching"
    /\ cfg.variant = BatchVariant
    /\ Len(respLog) < MaxRequests
    /\ FetchThrows(resp)
    /\ pc' = "failed"
    /\ errSheet' = logErrorRow_(errSheet, ErrorRow(resp))
    /\ sinkLog' = Append(sinkLog, "logErrorRow_")
    /\ respLog' = Append(respLog, resp)
    /\ UNCHANGED <<cfgVars, windows, pairs, wi, pi, page, allRows, totalMetrics, totalsAgg,
                   dataSheet, totalsSheet, merged, reqLog, sinkHist>>

\* a faulty variant: the catch block logs the error and asks for the page
\* again
BatchPageRetry(resp) ==
    /\ pc = "fetching"
    /\ cfg.variant = BatchVariant
    /\ Len(respLog) < MaxRequests
    /\ FetchThrows(resp)
    /\ errSheet' = logErrorRow_(errSheet, ErrorRow(resp))
    /\ sinkLog' = Append(sinkLog, "logErrorRow_")
    /\ reqLog' = Append(reqLog, BatchRequest(windows, pairs, wi, pi, page))
    /\ respLog' = Append(respLog, resp)
    /\ UNCHANGED <<cfgVars, pc, windows, pairs, wi, pi, page, allRows, totalMetrics, totalsAgg,
                   dataSheet, totalsSheet, merged, sinkHist>>

\* a faulty variant: the catch block also drops what was gathered so far
BatchPageDiscard(resp) ==
    /\ pc = "fetching"
    /\ cfg.variant = BatchVariant
    /\ Len(respLog) < MaxRequests
    /\ FetchThrows(resp)
    /\ errSheet' = logErrorRow_(errSheet, ErrorRow(resp))
    /\ BatchAdvance(<<>>, EmptyObj, Append(sinkLog, "logErrorRow_"))
    /\ respLog' = Append(respLog, resp)
    /\ UNCHANGED <<cfgVars, windows, pairs, totalMetrics, merged, sinkHist>>

\* a response that makes the fetch throw: the catch block logs it and the
\* forEach goes on
BatchPageError(resp) ==
    /\ pc = "fetching"
    /\ cfg.variant = BatchVariant
    /\ Len(respLog) < MaxRequests
    /\ FetchThrows(resp)
    /\ errSheet' = logErrorRow_(errSheet, ErrorRow(resp))
    /\ BatchAdvance(allRows, totalsAgg, Append(sinkLog, "logErrorRow_"))
    /\ respLog' = Append(respLog, resp)
    /\ UNCHANGED <<cfgVars, windows, pairs, totalMetrics, merged, sinkHist>>

\* a page that is not the last of its combination
BatchPageMore(resp) ==
    /\ pc = "fetching"
    /\ cfg.variant = BatchVariant
    /\ Len(respLog) < MaxRequests
    /\ ~FetchThrows(resp)
    /\ ~IsLastPage(page, resp)
    /\ totalsAgg' = MergeTotals(totalsAgg, resp)
    /\ merged' = MergedAfter(resp)
    /\ allRows' = allRows \o FlattenList(BatchVariant, pairs[pi].advertiser_id,
                                         pairs[pi].store_id, resp.list)
    /\ page' = page + 1
    /\ reqLog' = Append(reqLog, BatchRequest(windows, pairs, wi, pi, page + 1))
    /\ respLog' = Append(respLog, resp)
    /\ UNCHANGED <<cfgVars, pc, windows, pairs, wi, pi, totalMetrics, sheetVars, sinkLog,
                   sinkHist>>

\* the last page of its combination
BatchPageLast(resp) ==
    /\ pc = "fetching"
    /\ cfg.variant = BatchVariant
    /\ Len(respLog) < MaxRequests
    /\ ~FetchThrows(resp)
    /\ IsLastPage(page, resp)
    /\ merged' = MergedAfter(resp)
    /\ BatchAdvance(allRows \o FlattenList(BatchVariant, pairs[pi].advertiser_id,
                                           pairs[pi].store_id, resp.list),
                    MergeTotals(totalsAgg, resp), sinkLog)
    /\ respLog' = Append(respLog, resp)
    /\ UNCHANGED <<cfgVars, windows, pairs, totalMetrics, errSheet, sinkHist>>

-----------------------------------------------------------------------------
(* Bounds and input sets                                                    *)

MaxMerges == 3       \* merges into the accumulator on its own
MaxPage == 3         \* the largest total_page a response reports
MaxStartDay == 2     \* the planner on its own: start dates 0..MaxStartDay
MaxEndDay == 62      \* the planner on its own: end dates 0..MaxEndDay
MaxSinkWrites == 2   \* the sink on its own: writes in a row

Ten == Str(<<"1", "0">>)
Five == Str(<<"5">>)
USD == Str(<<"U", "S", "D">>)
EUR == Str(<<"E", "U", "R">>)

\* totals objects for the accumulator on its own
AggVals == {Ten, Five, Int2Js(2), USD, EUR}
AggPool ==
    {EmptyObj}
    \cup {Obj1("cost", v) : v \in AggVals}
    \cup {Obj1("currency", v) : v \in AggVals}
    \cup {Obj2("cost", v, "currency", w) : v \in AggVals, w \in {USD, EUR}}

\* list items
Item(dimensions, metrics) == [dimensions |-> dimensions, metrics |-> metrics]
ItemA == Item(SomeObj(Obj2("campaign_id", Name("c1"), "stat_time_day", Name("2025-06-01"))),
              SomeObj(Obj2("cost", Ten, "orders", Int2Js(2))))
ItemB == Item(SomeObj(Obj2("campaign_id", Name("c2"), "stat_time_day", Name("2025-06-01"))),
              SomeObj(Obj2("cost", Five, "orders", Int2Js(3))))
ItemC == Item(SomeObj(Obj2("campaign_id", Name("c3"), "stat_time_day", Name("2025-06-02"))),
              SomeObj(Obj1("cost", Int2Js(7))))
ItemNoMetrics == Item(SomeObj(Obj1("campaign_id", Name("c4"))), NoObj)
ItemNoDimensions == Item(NoObj, SomeObj(Obj2("cost", Ten, "campaign_name", Name("Summer"))))
ItemBare == Item(NoObj, NoObj)
ItemZero == Item(SomeObj(Obj1("campaign_id", Name("c5"))),
                 SomeObj(Obj2("cost", Int2Js(0), "orders", Int2Js(0))))
ItemNull == Item(SomeObj(Obj1("campaign_id", Null)),
                 SomeObj(Obj2("cost", Null, "roi", EmptyString)))

\* the configuration of a run
Config(variant, enable, start_date, end_date, advertiser_ids, store_ids, today) ==
    [variant |-> variant, config_error |-> FALSE, has_token |-> TRUE,
     advertiser_id |-> Name("adv1"), store_id |-> Name("store1"), campaign_id |-> Name("camp1"),
     start_date |-> start_date, end_date |-> end_date, enable_total_metrics |-> enable,
     advertiser_ids |-> advertiser_ids, store_ids |-> store_ids, today |-> today,
     tz |-> TZ]

SingleConfig(variant, enable) == Config(variant, enable, 10, 10, <<>>, <<>>, 10)
BatchConfig(advertiser_ids, store_ids, today) ==
    Config(BatchVariant, ENABLE_TOTAL_METRICS, START_FIXED, today, advertiser_ids, store_ids,
           today)

Adv1 == Name("adv1")
Adv2 == Name("adv2")
Store1 == Name("store1")
Store2 == Name("store2")

\* what the tabs hold before the run: the output of an earlier run
PriorData == <<HeaderCells(<<"advertiser_id", "cost">>), <<Adv1, Ten>>, <<Adv1, Five>>,
               <<Adv2, Ten>>, <<Adv2, Five>>, <<Adv2, Int2Js(7)>>, <<Adv2, Int2Js(8)>>,
               <<Adv2, Int2Js(9)>>, <<Adv2, Int2Js(10)>>, <<Adv2, Int2Js(11)>>>>
PriorTotals == <<HeaderCells(<<"cost", "roi", "currency">>), <<Ten, Five, USD>>>>
PriorErrors == <<HeaderCells(ErrorKeys),
                 <<Name("then"), Adv1, Store1, Name("0..29"), Name("HTTP 500 - old")>>>>

\* no write by the sink on its own yet: by is the file whose writeRowsToSheet_
\* wrote last, first what the tab held at the start, prevSheet what it held
\* before the last write
NoSinkHist == [writes |-> 0, by |-> "", first |-> <<>>, lastRows |-> <<>>, lastCols |-> <<>>,
               prevRows |-> <<>>, prevCols |-> <<>>, prevSheet |-> <<>>]

\* the state in which a script is started
RunInit(configs, zones, errorLogs) ==
    /\ cfg \in configs
    /\ scriptTz \in (IF cfg.variant = BatchVariant THEN zones ELSE {TZ})
    /\ pc = "start"
    /\ windows = <<>> /\ pairs = <<>> /\ wi = 1 /\ pi = 1 /\ page = 1
    /\ allRows = <<>> /\ totalMetrics = NoObj /\ totalsAgg = EmptyObj
    /\ dataSheet = PriorData /\ totalsSheet = PriorTotals
    /\ errSheet \in (IF cfg.variant = BatchVariant THEN errorLogs ELSE {<<>>})
    /\ merged = <<>> /\ sinkLog = <<>> /\ reqLog = <<>> /\ respLog = <<>>
    /\ sinkHist = NoSinkHist

\* one step of a run, its response drawn from a set
RunNext(responses) ==
    \/ StartSingle
    \/ StartBatch
    \/ \E resp \in responses :
          \/ SinglePageError(resp)
          \/ SinglePageMore(resp)
          \/ SinglePageLast(resp)
          \/ BatchPageError(resp)
          \/ BatchPageMore(resp)
          \/ BatchPageLast(resp)

-----------------------------------------------------------------------------
(* Pagination: runs whose responses differ in their rows, in total_page     *)
(* and in whether the fetch throws.                                         *)

PageCounts == {Undefined} \cup {Int2Js(n) : n \in 1..MaxPage}
PageLists == {<<ItemA, ItemB>>, <<ItemC>>}
PageResponses ==
    {OkResponse(list, tp, NoObj) : list \in PageLists, tp \in PageCounts}
    \cup {HttpError, ApiError}
PageConfigs ==
    {SingleConfig(v, FALSE) : v \in {"ProductCampaignDaily", "ProductDaily", "CreativeStatuses"}}
    \cup {BatchConfig(<<Adv1, Adv2>>, <<Store1>>, 10),
          BatchConfig(<<Adv1>>, <<Store1>>, 40),
          BatchConfig(<<Adv1, Adv2>>, <<Store1, Store2>>, 29),
          BatchConfig(<<Adv1>>, <<Store1>>, -1)}

InitPages == RunInit(PageConfigs, {TZ}, {PriorErrors})
NextPages == RunNext(PageResponses)
SpecPages == InitPages /\ [][NextPages]_vars

-----------------------------------------------------------------------------
(* The accumulator on its own: any sequence of merges into an empty one.    *)

IdleRun ==
    /\ windows = <<>> /\ pairs = <<>> /\ wi = 1 /\ pi = 1 /\ page = 1
    /\ allRows = <<>> /\ totalMetrics = NoObj
    /\ totalsSheet = <<>> /\ errSheet = <<>>
    /\ sinkLog = <<>> /\ reqLog = <<>> /\ respLog = <<>>

InitAgg ==
    /\ IdleRun
    /\ cfg = SingleConfig("ProductCampaignDaily", TRUE) /\ scriptTz = TZ /\ pc = "merging"
    /\ totalsAgg = EmptyObj /\ merged = <<>>
    /\ dataSheet = <<>> /\ sinkHist = NoSinkHist

Merge(add) ==
    /\ Len(merged) < MaxMerges
    /\ totalsAgg' = sumTotals_(totalsAgg, add)
    /\ merged' = Append(merged, add)
    /\ UNCHANGED <<cfgVars, pc, windows, pairs, wi, pi, page, allRows, totalMetrics, sheetVars,
                   sinkLog, reqLog, respLog, sinkHist>>

NextAgg == \E add \in AggPool : Merge(add)
SpecAgg == InitAgg /\ [][NextAgg]_vars

\* the accumulator fed one key whose values are numerals, a word, or the
\* numeral of no finite number
InfinityText == Str(InfinityWord)
CarryVals == {Ten, Five, USD, InfinityText}
CarryPool == {EmptyObj} \cup {Obj1("cost", v) : v \in CarryVals}
SpecCarry == InitAgg /\ [][\E add \in CarryPool : Merge(add)]_vars

-----------------------------------------------------------------------------
(* The planner on its own: buildDailyWindows_ on any range, in any zone,    *)
(* under any script zone.                                                   *)

InitWin ==
    /\ IdleRun
    /\ cfg \in {[Config("planner", FALSE, s, e, <<>>, <<>>, e) EXCEPT !.tz = z] :
                    s \in 0..MaxStartDay, e \in 0..MaxEndDay, z \in TimeZones}
    /\ scriptTz \in TimeZones
    /\ pc = "start"
    /\ totalsAgg = EmptyObj /\ merged = <<>>
    /\ dataSheet = <<>> /\ sinkHist = NoSinkHist

BuildWindows ==
    /\ pc = "start"
    /\ windows' = buildDailyWindows_(cfg.start_date, cfg.end_date, cfg.tz)
    /\ pc' = "done"
    /\ UNCHANGED <<cfgVars, pairs, wi, pi, page, allRows, totalMetrics, totalsAgg, sheetVars,
                   histVars>>

NextWin == BuildWindows
SpecWin == InitWin /\ [][NextWin]_vars

-----------------------------------------------------------------------------
(* The sink on its own: writeRowsToSheet_ on any tab, once and again.       *)

SinkColumns == {<<"advertiser_id", "cost">>, <<"cost", "roi", "advertiser_id">>}

RowFull == Obj2("advertiser_id", Adv1, "cost", Ten)
RowNoCost == Obj1("advertiser_id", Adv2)
RowNullCost == Obj2("advertiser_id", Adv1, "cost", Null)
SinkRows == {<<>>, <<RowFull>>, <<RowNoCost, RowFull>>, <<RowFull, RowNoCost, RowNullCost>>}

\* a tab wider than what is written to it
PriorWide == <<HeaderCells(<<"a", "b", "c", "d">>), <<Ten, Five, USD, EUR>>,
               <<Five, Ten, EUR, USD>>>>
SinkPriors == {<<>>, PriorData, PriorWide}

InitSink ==
    /\ IdleRun
    /\ cfg = SingleConfig("ProductCampaignDaily", FALSE) /\ scriptTz = TZ /\ pc = "sink"
    /\ totalsAgg = EmptyObj /\ merged = <<>>
    /\ dataSheet \in SinkPriors
    /\ sinkHist = [NoSinkHist EXCEPT !.first = dataSheet]

SinkHistAfter(by, rows, columns) ==
    [writes |-> sinkHist.writes + 1, by |-> by, first |-> sinkHist.first,
     lastRows |-> rows, lastCols |-> columns,
     prevRows |-> sinkHist.lastRows, prevCols |-> sinkHist.lastCols,
     prevSheet |-> dataSheet]

\* a call of the single-query scripts' writeRowsToSheet_
WriteRows(rows, headerOrder) ==
    /\ pc = "sink"
    /\ sinkHist.writes < MaxSinkWrites
    /\ dataSheet' = writeRowsToSheet_(dataSheet, rows, headerOrder)
    /\ sinkHist' = SinkHistAfter("runProductGmvMaxCampaignDaily.js", rows, headerOrder)
    /\ UNCHANGED <<cfgVars, runVars, totalsSheet, errSheet, merged, sinkLog, reqLog, respLog>>

\* a call of the batch driver's writeRowsToSheet_
WriteRowsBatch(rows, columns) ==
    /\ pc = "sink"
    /\ sinkHist.writes < MaxSinkWrites
    /\ dataSheet' = writeRowsToSheet_Batch(dataSheet, rows, columns)
    /\ sinkHist' = SinkHistAfter("part_001", rows, columns)
    /\ UNCHANGED <<cfgVars, runVars, totalsSheet, errSheet, merged, sinkLog, reqLog, respLog>>

NextSink ==
    \E rows \in SinkRows, columns \in SinkColumns :
        \/ WriteRows(rows, columns)
        \/ WriteRowsBatch(rows, columns)
SpecSink == InitSink /\ [][NextSink]_vars

-----------------------------------------------------------------------------
(* Flattening: runs whose list items lack fields and sub-objects.           *)

RowLists == {<<ItemA>>, <<ItemNoMetrics, ItemBare>>, <<ItemNoDimensions, ItemNull>>,
             <<ItemZero>>}
RowResponses ==
    {OkResponse(list, tp, NoObj) : list \in RowLists, tp \in {Undefined, Int2Js(2)}}
    \cup {HttpError}
RowConfigs ==
    {SingleConfig(v, FALSE) : v \in {"ProductCampaignDaily", "LiveCampaignHourly"}}
    \cup {BatchConfig(<<Adv1, Adv2>>, <<Store1>>, 10)}

InitRows == RunInit(RowConfigs, {TZ}, {<<>>})
NextRows == RunNext(RowResponses)
SpecRows == InitRows /\ [][NextRows]_vars

-----------------------------------------------------------------------------
(* Totals: runs whose responses carry totals objects, or none.              *)

Hundred == Str(<<"1", "0", "0">>)
Fifty == Str(<<"5", "0">>)
TwoFifty == Str(<<"2", "5", "0">>)
TwoPointFive == Str(<<"2", ".", "5">>)

TotalsByCost ==
    Put(Obj2("cost", Hundred, "gross_revenue", TwoFifty), "roi", TwoPointFive)
TotalsByNetCost ==
    Put(Put(Obj2("cost", Int2Js(0), "net_cost", Fifty), "gross_revenue", Hundred),
        "roi", Str(<<"0">>))
TotalsNoCost == Put(Obj2("net_cost", Fifty, "gross_revenue", Hundred), "roi", Int2Js(1))
TotalsNoRevenue == Obj2("cost", Hundred, "roi", TwoPointFive)

TotalsPool == {NoObj, SomeObj(TotalsByCost), SomeObj(TotalsByNetCost), SomeObj(TotalsNoCost),
               SomeObj(TotalsNoRevenue), SomeObj(EmptyObj)}
TotalsResponses ==
    {OkResponse(<<ItemA>>, tp, tm) : tp \in {Undefined, Int2Js(2)}, tm \in TotalsPool}
    \cup {HttpError}
TotalsConfigs ==
    {SingleConfig(v, TRUE) : v \in {"ProductCampaignDaily", "CreativeStatuses"}}
    \cup {BatchConfig(<<Adv1, Adv2>>, <<Store1>>, 10)}

InitTot == RunInit(TotalsConfigs, {TZ}, {<<>>})
NextTot == RunNext(TotalsResponses)
SpecTot == InitTot /\ [][NextTot]_vars

-----------------------------------------------------------------------------
(* Configuration: runs started from a Config row that lacks a field, with   *)
(* no token, with ranges the granularity forbids, with id lists that do not *)
(* pair.                                                                    *)

\* ranges for a day-level script, and for an hour-level one
DailyRanges == {<<0, 0>>, <<0, 29>>, <<0, 30>>, <<1, 40>>, <<5, 2>>}
HourlyRanges == {<<3, 3>>, <<3, 4>>, <<4, 3>>}
RangesOf(variant) ==
    IF variant \in DailyVariants THEN DailyRanges
    ELSE IF variant \in HourlyVariants THEN HourlyRanges
    ELSE {<<0, 0>>, <<0, 45>>}

\* a Config row as read, and the same with one thing missing
ConfigsOf(c) ==
    {c, [c EXCEPT !.config_error = TRUE], [c EXCEPT !.has_token = FALSE],
     [c EXCEPT !.advertiser_id = EmptyString], [c EXCEPT !.store_id = EmptyString]}

Adv3 == Name("adv3")
Store3 == Name("store3")
IdLists == {<<<<Adv1, Adv2>>, <<Store1>>>>, <<<<Adv1, Adv2>>, <<Store1, Store2>>>>,
            <<<<Adv1, Adv2>>, <<Store1, Store2, Store3>>>>, <<<<Adv1>>, <<Store1, Store2>>>>,
            <<<<Adv1, Adv2, Adv3>>, <<Store1>>>>, <<<<Adv1, Adv2>>, <<>>>>, <<<<>>, <<Store1>>>>}

CfgConfigs ==
    UNION {ConfigsOf(Config(v, FALSE, r[1], r[2], <<>>, <<>>, r[2])) :
              v \in SingleVariants, r \in DailyRanges \cup HourlyRanges \cup {<<0, 45>>}}
    \cup UNION {{BatchConfig(l[1], l[2], 10), [BatchConfig(l[1], l[2], 10) EXCEPT !.has_token = FALSE]} :
                    l \in IdLists}
CfgResponses == {OkResponse(<<ItemA>>, Undefined, NoObj), OkResponse(<<ItemB>>, Int2Js(2), NoObj),
                 HttpError}

InitCfg ==
    /\ RunInit(CfgConfigs, {TZ}, {PriorErrors})
    /\ cfg.variant \in SingleVariants => <<cfg.start_date, cfg.end_date>> \in RangesOf(cfg.variant)
SpecCfg == InitCfg /\ [][RunNext(CfgResponses)]_vars

-----------------------------------------------------------------------------
(* The batch driver on its own: runs over two pairs, three pairs, two       *)
(* windows or both, whose responses carry rows and totals or throw,         *)
(* with an error log that is new or holds the rows of an earlier run.       *)

TotalsOrders ==
    Put(Obj2("cost", Hundred, "orders", Str(<<"4">>)), "cost_per_order", Str(<<"2", "5">>))
TotalsOrdersMore ==
    Put(Obj2("cost", Fifty, "orders", Str(<<"1">>)), "cost_per_order", Fifty)

BatchConfigs ==
    {BatchConfig(<<Adv1, Adv2>>, <<Store1>>, 10),
     BatchConfig(<<Adv1, Adv2, Adv3>>, <<Store1, Store2, Store3>>, 10),
     BatchConfig(<<Adv1>>, <<Store1>>, 40),
     BatchConfig(<<Adv1, Adv2>>, <<Store1, Store2>>, 40)}
BatchResponses ==
    {OkResponse(<<ItemA>>, tp, tm) :
        tp \in {Undefined, Int2Js(2)},
        tm \in {NoObj, SomeObj(TotalsOrders), SomeObj(TotalsOrdersMore)}}
    \cup {HttpError, ApiError}

BatchNext(responses) ==
    \/ StartBatch
    \/ \E resp \in responses :
          \/ BatchPageError(resp)
          \/ BatchPageMore(resp)
          \/ BatchPageLast(resp)

InitBatch == RunInit(BatchConfigs, {TZ}, {<<>>, PriorErrors})
SpecBatch == InitBatch /\ [][BatchNext(BatchResponses)]_vars

-----------------------------------------------------------------------------
(* The page loop under a server whose total_page changes from one page to   *)
(* the next: missing, null, 0, a count, the numeral of a count, or a word.  *)

Many == Name("many")
LoopCounts ==
    {Undefined, Null, Int2Js(0), Str(<<"2">>), Many} \cup {Int2Js(n) : n \in 1..MaxPage}
LoopResponses == {OkResponse(<<ItemA>>, tp, NoObj) : tp \in LoopCounts} \cup {HttpError}
LoopConfigs ==
    {SingleConfig("ProductCampaignDaily", FALSE), BatchConfig(<<Adv1, Adv2>>, <<Store1>>, 10)}
InitLoop == RunInit(LoopConfigs, {TZ}, {<<>>})
SpecLoop == InitLoop /\ [][RunNext(LoopResponses)]_vars

-----------------------------------------------------------------------------
(* The batch driver started on days before, on and after START_FIXED, in    *)
(* any script zone.                                                         *)

EarlyDays == {-2, -1, 0, 1}
EarlyConfigs == {BatchConfig(<<Adv1, Adv2>>, <<Store1>>, t) : t \in EarlyDays}
EarlyResponses ==
    {OkResponse(<<ItemA>>, Undefined, NoObj), OkResponse(<<ItemB>>, Int2Js(2), SomeObj(TotalsOrders)),
     HttpError}
InitEarly == RunInit(EarlyConfigs, TimeZones, {<<>>, PriorErrors})
SpecEarly == InitEarly /\ [][BatchNext(EarlyResponses)]_vars

-----------------------------------------------------------------------------
(* Properties                                                               *)

\* the rows a log of requests and responses leaves in allRows: those of the
\* responses that did not throw, in the order received
RECURSIVE RowsReceived(_)
RowsReceived(n) ==
    IF n = 0 THEN <<>>
    ELSE RowsReceived(n - 1)
         \o (IF FetchThrows(respLog[n]) THEN <<>>
             ELSE FlattenList(cfg.variant, reqLog[n].advertiser_id, reqLog[n].store_id,
                              respLog[n].list))

\* the list items received, in the order received
RECURSIVE ItemsReceived(_)
ItemsReceived(n) ==
    IF n = 0 THEN <<>>
    ELSE ItemsReceived(n - 1) \o (IF FetchThrows(respLog[n]) THEN <<>> ELSE respLog[n].list)

\* the (window, pair) combinations asked about so far
Combinations == {<<reqLog[i].w, reqLog[i].p>> : i \in 1..Len(reqLog)}
RequestsOf(c) == SelectSeq(reqLog, LAMBDA r : <<r.w, r.p>> = c)
AnswersOf(c) == {i \in 1..Len(respLog) : <<reqLog[i].w, reqLog[i].p>> = c}

\* every response of combination c so far came back with total_page = n
SameTotalPage(c, n) ==
    /\ AnswersOf(c) # {}
    /\ \A i \in AnswersOf(c) : ~FetchThrows(respLog[i]) /\ respLog[i].total_page = Int2Js(n)

\* the requests of combination c are pages 1, 2, ... in order, one beyond
\* the answers while fewer than n pages came back, and n once n came back
PagedUpTo(reqs, answers, n) ==
    /\ \A j \in 1..Len(reqs) : reqs[j].page = j
    /\ Len(reqs) <= n
    /\ answers <= n
    /\ (answers < n => Len(reqs) = answers + 1)
    /\ (answers = n => Len(reqs) = n)

\* C1: a query whose every response reports total_page = N is asked for pages
\* 1, 2, ..., N in that order and for no page after N, and the rows gathered
\* are those of the pages received, concatenated in page order.
C1_PaginationExact ==
    /\ Len(reqLog) >= Len(respLog)
    /\ \A c \in Combinations : \A n \in 1..MaxPage :
          SameTotalPage(c, n) => PagedUpTo(RequestsOf(c), Cardinality(AnswersOf(c)), n)
    /\ allRows = RowsReceived(Len(respLog))

\* three pages of two rows each: three calls, six rows
C1_ThreePagesSixRows ==
    /\ pc = "done"
    /\ cfg.variant \in SingleVariants
    /\ Len(respLog) = 3
    /\ \A i \in 1..3 : respLog[i].total_page = Int2Js(3) /\ Len(respLog[i].list) = 2
    /\ [i \in 1..Len(reqLog) |-> reqLog[i].page] = <<1, 2, 3>>
    /\ Len(allRows) = 6

\* a planner output that covers [start, end] in windows of at most 30 days
WindowsCover(ws, start, end) ==
    /\ Len(ws) >= 1
    /\ ws[1][1] = start
    /\ ws[Len(ws)][2] = end
    /\ \A i \in 1..Len(ws) : ws[i][2] = Min(end, ws[i][1] + 29)
    /\ \A i \in 1..(Len(ws) - 1) : ws[i + 1][1] = ws[i][2] + 1
    /\ (start = end => ws = <<<<start, start>>>>)

\* C2: for every range with start <= end, buildDailyWindows_ returns windows
\* that begin at start, finish at end, each end at min(end, start + 29 days),
\* each follow the previous by one day, and are one window when start = end.
C2_WindowsCoverRange ==
    (pc = "done" /\ cfg.variant = "planner" /\ cfg.start_date <= cfg.end_date)
        => WindowsCover(windows, cfg.start_date, cfg.end_date)

\* the values of the accumulator's input set that are numbers, and what
\* each amounts to
NumericVals == {Ten, Five, Int2Js(2)}
Amount(v) == CASE v = Ten -> 10 [] v = Five -> 5 [] v = Int2Js(2) -> 2

RECURSIVE SumOfKey(_, _)
SumOfKey(k, n) ==
    IF n = 0 THEN 0
    ELSE SumOfKey(k, n - 1) + (IF Has(merged[n], k) THEN Amount(merged[n].val[k]) ELSE 0)

MergedWith(k) == {n \in 1..Len(merged) : Has(merged[n], k)}
AggKeys == {"cost", "currency"}

\* C3: after merging any sequence of totals objects whose values for a key
\* are all numeric (numbers or numeric strings), the accumulator's value for
\* the key is the number that is their arithmetic sum.
C3_NumericKeysSum ==
    pc = "merging" =>
        \A k \in AggKeys :
            (MergedWith(k) # {} /\ \A n \in MergedWith(k) : merged[n].val[k] \in NumericVals)
                => Get(totalsAgg, k) = Int2Js(SumOfKey(k, Len(merged)))

\* {cost: "10"} then {cost: "5"} gives {cost: 15}
C3_TenPlusFive ==
    /\ pc = "merging"
    /\ merged = <<Obj1("cost", Ten), Obj1("cost", Five)>>
    /\ Get(totalsAgg, "cost") = Int2Js(15)

\* C4: for a key whose value is non-numeric in every merged totals object,
\* the accumulator holds the value of the first merged object that had the
\* key, whatever was merged after it.
C4_FirstWriterWins ==
    pc = "merging" =>
        \A k \in AggKeys :
            (MergedWith(k) # {} /\ \A n \in MergedWith(k) : merged[n].val[k] \in {USD, EUR})
                => Get(totalsAgg, k)
                     = merged[CHOOSE n \in MergedWith(k) : \A m \in MergedWith(k) : n <= m].val[k]

\* {currency: "USD"} then {currency: "EUR"} gives {currency: "USD"}
C4_UsdThenEur ==
    /\ pc = "merging"
    /\ merged = <<Obj1("currency", USD), Obj1("currency", EUR)>>
    /\ Get(totalsAgg, "currency") = USD

\* the cell of the totals tab under the header key
TotalsCell(key) ==
    totalsSheet[2][CHOOSE c \in 1..Len(totalsSheet[1]) : totalsSheet[1][c] = Name(key)]
TotalsTabHas(key) ==
    Len(totalsSheet) >= 2 /\ \E c \in 1..Len(totalsSheet[1]) : totalsSheet[1][c] = Name(key)

\* r is the number a / b
IsQuotient(r, a, b) ==
    r.t = "number" /\ r.k = "fin" /\ b.p # 0 /\ r.p * b.p * a.q = a.p * b.q * r.q

RoiWritten(cost, netCost, gross) ==
    /\ (isFinite(cost) /\ Gt0(cost) /\ isFinite(gross))
          => (TotalsTabHas("roi") /\ IsQuotient(TotalsCell("roi"), gross, cost))
    /\ ((~isFinite(cost) \/ IsZero(cost)) /\ isFinite(netCost) /\ Gt0(netCost)
          /\ isFinite(gross))
          => (TotalsTabHas("roi") /\ IsQuotient(TotalsCell("roi"), gross, netCost))

\* C5: at the end of a batch run, when the summed cost is finite and positive
\* and the summed gross_revenue finite, the roi written is gross_revenue /
\* cost; when the cost is zero or not finite, the summed net_cost finite and
\* positive and the gross_revenue finite, it is gross_revenue / net_cost.
C5_RoiRecomputed ==
    (cfg.variant = BatchVariant /\ pc = "done")
        => RoiWritten(num_(Get(totalsAgg, "cost")), num_(Get(totalsAgg, "net_cost")),
                      num_(Get(totalsAgg, "gross_revenue")))

\* cost = 0, net_cost = 50, gross_revenue = 100 merged with cost = 100,
\* gross_revenue = 250: cost 100, gross_revenue 350, roi 3.5 and not the sum
\* of the two roi values
C5_SummedThenDivided ==
    /\ cfg.variant = BatchVariant
    /\ pc = "done"
    /\ merged = <<TotalsByNetCost, TotalsByCost>>
    /\ TotalsTabHas("roi")
    /\ TotalsCell("roi") = Fin(7, 2)

\* the field of the response a column is read from
SourceField(col) ==
    CASE col = "live_10s_views" -> "10_second_live_views"
      [] col = "cost_per_10s_live_view" -> "cost_per_10_second_live_view"
      [] OTHER -> col
DimensionColumns == {"stat_time_day", "stat_time_hour", "campaign_id", "item_group_id", "item_id"}
ConfigColumns == {"advertiser_id", "store_id"}

\* the item has no field for the column
FieldAbsent(item, col) ==
    IF col \in ConfigColumns THEN FALSE
    ELSE IF col \in DimensionColumns
    THEN ~item.dimensions.present \/ SourceField(col) \notin DOMAIN item.dimensions.obj.val
    ELSE ~item.metrics.present \/ SourceField(col) \notin DOMAIN item.metrics.obj.val

RowDefaulted(row, item, columns) ==
    \A c \in 1..Len(columns) :
        /\ columns[c] \in DOMAIN row.val
        /\ row.val[columns[c]].t \notin {"null", "undefined"}
        /\ (FieldAbsent(item, columns[c]) => row.val[columns[c]] = EmptyString)

RowsDefaulted(rows, items, columns) ==
    /\ Len(rows) = Len(items)
    /\ \A i \in 1..Len(rows) : RowDefaulted(rows[i], items[i], columns)

\* C6: every list item received gives one flattened row that has every
\* declared column; a dimension or metric the item lacks (the whole
\* sub-object included) is the empty string there, and no column is null or
\* undefined.
C6_MissingFieldsBlank ==
    cfg.variant \in {"ProductCampaignDaily", "LiveCampaignHourly", BatchVariant}
        => RowsDefaulted(allRows, ItemsReceived(Len(respLog)), Columns(cfg.variant))

\* an item with neither dimensions nor metrics was flattened
C6_BareItemFlattened ==
    /\ Len(allRows) >= 2
    /\ ItemsReceived(Len(respLog))[2] = ItemBare
    /\ allRows[2].val["campaign_id"] = EmptyString
    /\ allRows[2].val["cost"] = EmptyString

\* what a tab holds after rows were written to it under the columns: the
\* header, then one row per input row, a missing value blank
ExpectedGrid(rows, columns) ==
    <<[c \in 1..Len(columns) |-> Name(columns[c])]>>
    \o [i \in 1..Len(rows) |->
          [c \in 1..Len(columns) |->
              IF columns[c] \in DOMAIN rows[i].val
                 /\ rows[i].val[columns[c]].t \notin {"null", "undefined"}
              THEN rows[i].val[columns[c]]
              ELSE EmptyString]]

AllAttempted ==
    \A w \in 1..Len(windows) : \A p \in 1..Len(pairs) :
        \E i \in 1..Len(reqLog) : reqLog[i].w = w /\ reqLog[i].p = p /\ reqLog[i].page = 1

\* C7: in the batch driver a fetch that throws does not end the run: the
\* next combination is asked for, every combination is attempted by the end,
\* and the data tab written at the end holds the rows of every response that
\* did not throw.
C7_BatchContinues ==
    cfg.variant = BatchVariant =>
        /\ (respLog # <<>> => pc \in {"fetching", "done"})
        /\ (pc = "fetching" => Len(reqLog) = Len(respLog) + 1)
        /\ (pc = "done" =>
               /\ AllAttempted
               /\ \E i \in 1..Len(sinkLog) : sinkLog[i] = "writeRowsToSheet_"
               /\ dataSheet = ExpectedGrid(RowsReceived(Len(respLog)), Columns(BatchVariant)))

\* one combination threw, another came back with rows, and the run finished
C7_OneThrewOneSucceeded ==
    /\ cfg.variant = BatchVariant
    /\ pc = "done"
    /\ \E i, j \in 1..Len(respLog) :
          /\ FetchThrows(respLog[i])
          /\ ~FetchThrows(respLog[j]) /\ Len(respLog[j].list) > 0
          /\ <<reqLog[i].w, reqLog[i].p>> # <<reqLog[j].w, reqLog[j].p>>
    /\ Len(dataSheet) > 1

\* C8: after writeRowsToSheet_ the tab holds the header in the given column
\* order and then one row per input row in input order, whatever it held
\* before; writing the same rows again leaves it as it was.
C8_FullOverwrite ==
    (pc = "sink" /\ sinkHist.writes > 0) =>
        /\ dataSheet = ExpectedGrid(sinkHist.lastRows, sinkHist.lastCols)
        /\ (sinkHist.writes > 1 /\ sinkHist.lastRows = sinkHist.prevRows
              /\ sinkHist.lastCols = sinkHist.prevCols)
              => dataSheet = sinkHist.prevSheet

\* the same rows written twice to a tab that held more rows than they are
C8_WrittenTwiceOverMore ==
    /\ pc = "sink"
    /\ sinkHist.writes = 2
    /\ sinkHist.lastRows = sinkHist.prevRows /\ sinkHist.lastCols = sinkHist.prevCols
    /\ Len(sinkHist.lastRows) > 0
    /\ Len(sinkHist.first) > Len(sinkHist.lastRows) + 1
    /\ Len(dataSheet) = Len(sinkHist.lastRows) + 1

\* the totals object of the lowest-numbered page from i on that carried one
RECURSIVE FirstTotals(_)
FirstTotals(i) ==
    IF i > Len(respLog) THEN NoObj
    ELSE IF ~FetchThrows(respLog[i]) /\ respLog[i].total_metrics.present
    THEN respLog[i].total_metrics
    ELSE FirstTotals(i + 1)

TotalsWritten == \E i \in 1..Len(sinkLog) : sinkLog[i] = "writeTotalsSheet_"

\* C9: in a single-query script with totals enabled, the totals object kept
\* is that of the lowest-numbered page that carried one, whatever later
\* pages carry, and it is the one written to the totals tab.
C9_FirstTotalsKept ==
    (cfg.variant \in SingleVariants /\ cfg.enable_total_metrics) =>
        /\ totalMetrics = FirstTotals(1)
        /\ totalsSheet = IF TotalsWritten
                         THEN writeTotalsSheet_(PriorTotals, FirstTotals(1).obj)
                         ELSE PriorTotals

\* two pages carried different totals objects and the first was written
C9_SecondTotalsIgnored ==
    /\ cfg.variant \in SingleVariants
    /\ pc = "done"
    /\ Len(respLog) = 2
    /\ respLog[1].total_metrics = SomeObj(TotalsByNetCost)
    /\ respLog[2].total_metrics = SomeObj(TotalsByCost)
    /\ TotalsWritten
    /\ TotalsTabHas("net_cost")

\* C10: in a single-query script a fetch that throws on any page ends the
\* run with no sink operation: the data tab and the totals tab hold what
\* they held before the run, whatever pages came back before.
C10_ErrorWritesNothing ==
    (cfg.variant \in SingleVariants /\ \E i \in 1..Len(respLog) : FetchThrows(respLog[i])) =>
        /\ pc = "failed"
        /\ sinkLog = <<>>
        /\ dataSheet = PriorData
        /\ totalsSheet = PriorTotals

\* pages 1 and 2 came back with rows, page 3 threw
C10_ThirdPageThrew ==
    /\ cfg.variant \in SingleVariants
    /\ pc = "failed"
    /\ Len(respLog) = 3
    /\ ~FetchThrows(respLog[1]) /\ ~FetchThrows(respLog[2]) /\ FetchThrows(respLog[3])
    /\ Len(allRows) > 0
    /\ dataSheet = PriorData

\* the Config row lacks a required field, or the token is missing, or the
\* range is one the granularity of the script forbids
RangeForbidden(variant, start, end) ==
    \/ variant \in DailyVariants /\ end - start + 1 > 30
    \/ variant \in HourlyVariants /\ start # end
ConfigBad ==
    \/ cfg.config_error \/ cfg.advertiser_id = EmptyString \/ cfg.store_id = EmptyString
    \/ ~cfg.has_token
    \/ RangeForbidden(cfg.variant, cfg.start_date, cfg.end_date)

\* C11: a single-query run whose Config row lacks a required field, whose
\* token is missing, or whose range its granularity forbids (more than 30
\* days for a day-level script, two different dates for an hour-level one),
\* and a batch run with no token, makes no request and no sink operation;
\* every request made carries the configured range, which its granularity
\* allows.
C11_ConfigErrorsFirst ==
    /\ ((cfg.variant \in SingleVariants /\ ConfigBad) \/ ~cfg.has_token) =>
          /\ pc \in {"start", "failed"}
          /\ reqLog = <<>> /\ respLog = <<>> /\ sinkLog = <<>>
          /\ dataSheet = PriorData /\ totalsSheet = PriorTotals
    /\ cfg.variant \in SingleVariants =>
          \A i \in 1..Len(reqLog) :
              /\ reqLog[i].start_date = cfg.start_date /\ reqLog[i].end_date = cfg.end_date
              /\ ~RangeForbidden(cfg.variant, reqLog[i].start_date, reqLog[i].end_date)

\* a day-level script given 31 days stopped before its first request
C11_ThirtyOneDaysRefused ==
    /\ cfg.variant \in DailyVariants
    /\ cfg.end_date - cfg.start_date = 30
    /\ cfg.has_token /\ ~cfg.config_error
    /\ Truthy(cfg.advertiser_id) /\ Truthy(cfg.store_id)
    /\ pc = "failed"
    /\ reqLog = <<>>

\* C12: the batch driver pairs the one store with every advertiser, else
\* advertiser i with store i when the lists are as long as each other, else
\* fails before any request; there are as many pairs as advertisers.
C12_PairsBuilt ==
    (cfg.variant = BatchVariant /\ cfg.has_token /\ pc # "start") =>
        IF Len(cfg.store_ids) = 1 \/ Len(cfg.store_ids) = Len(cfg.advertiser_ids)
        THEN /\ pc # "failed"
             /\ Len(pairs) = Len(cfg.advertiser_ids)
             /\ \A i \in 1..Len(pairs) :
                   /\ pairs[i].advertiser_id = cfg.advertiser_ids[i]
                   /\ pairs[i].store_id = cfg.store_ids[IF Len(cfg.store_ids) = 1 THEN 1 ELSE i]
        ELSE pc = "failed" /\ reqLog = <<>>

\* two advertisers and two stores were paired by position
C12_PairedByPosition ==
    /\ cfg.variant = BatchVariant
    /\ pc = "done"
    /\ cfg.advertiser_ids = <<Adv1, Adv2>> /\ cfg.store_ids = <<Store1, Store2>>
    /\ pairs = <<[advertiser_id |-> Adv1, store_id |-> Store1],
                 [advertiser_id |-> Adv2, store_id |-> Store2]>>
    /\ Len(respLog) = 2

\* the log after one call: the rows it had, then the header if it had none,
\* then one row of five cells
AppendedOne(old, new) ==
    /\ Len(new) = IF old = <<>> THEN 2 ELSE Len(old) + 1
    /\ \A r \in 1..Len(old) : new[r] = old[r]
    /\ old = <<>> => new[1] = HeaderCells(ErrorKeys)
    /\ Len(new[Len(new)]) = Len(ErrorKeys)
    /\ new[Len(new)] # HeaderCells(ErrorKeys)

\* C13: every step of a batch run leaves the error log as it was or adds
\* one row after the rows it had, with the header before it only when the
\* log was empty; no step clears the log or rewrites a row of it.
C13_ErrorLogAppendOnly ==
    [][errSheet' = errSheet \/ AppendedOne(errSheet, errSheet')]_vars

\* two failures were logged after the rows of an earlier run
C13_TwoRowsAfterEarlier ==
    /\ cfg.variant = BatchVariant
    /\ pc = "done"
    /\ Len(errSheet) = Len(PriorErrors) + 2
    /\ SubSeq(errSheet, 1, Len(PriorErrors)) = PriorErrors

\* the responses that made the fetch throw, in the order received
Failures == SelectSeq([i \in 1..Len(respLog) |-> i], LAMBDA i : FetchThrows(respLog[i]))

\* the row the log holds for the failure of request i
FailureRow(i) ==
    <<Name("now"), reqLog[i].advertiser_id, reqLog[i].store_id,
      Str(<<ToString(reqLog[i].start_date), "..", ToString(reqLog[i].end_date)>>),
      ErrorMessage(respLog[i])>>

\* C19: at every point of a batch run the error log holds, after the rows
\* it began with (or after the header when it began empty), exactly one row
\* per combination whose fetch threw and none for the others, each with the
\* advertiser id, the store id, the window as "start..end" and the message,
\* in the order the combinations were processed.
C19_OneRowPerFailure ==
    cfg.variant = BatchVariant =>
        /\ \A c \in Combinations :
              Cardinality({i \in AnswersOf(c) : FetchThrows(respLog[i])}) <= 1
        /\ IF Failures = <<>>
           THEN errSheet \in {<<>>, PriorErrors}
           ELSE \E before \in {<<HeaderCells(ErrorKeys)>>, PriorErrors} :
                   errSheet = before \o [n \in 1..Len(Failures) |-> FailureRow(Failures[n])]

\* of three combinations asked about the first and the third threw, the
\* second completed, and the log that began empty holds the two rows
C19_TwoFailedOneCompleted ==
    /\ cfg.variant = BatchVariant
    /\ Len(respLog) = 3
    /\ Failures = <<1, 3>>
    /\ reqLog[2].page = 1 /\ reqLog[3].page = 1
    /\ Len(errSheet) = 3
    /\ errSheet[2][4] = Str(<<ToString(reqLog[1].start_date), "..", ToString(reqLog[1].end_date)>>)
    /\ errSheet[3][5] = ErrorMessage(respLog[3])

\* the merge of the totals of the first n responses, those that threw and
\* those without totals left out
RECURSIVE TotalsReceived(_)
TotalsReceived(n) ==
    IF n = 0 THEN EmptyObj
    ELSE IF FetchThrows(respLog[n]) \/ ~respLog[n].total_metrics.present
         THEN TotalsReceived(n - 1)
         ELSE sumTotals_(TotalsReceived(n - 1), respLog[n].total_metrics.obj)

\* C20: in a batch run the rows gathered are those of every page that was
\* fetched, in the order fetched, and the accumulator is the merge of the
\* totals of exactly those pages, the pages of a combination that came
\* before a page that threw included; the data tab written at the end
\* holds those rows and the accumulator has its roi recomputed then.
C20_PartialResultsKept ==
    (cfg.variant = BatchVariant /\ pc \in {"fetching", "done"}) =>
        /\ allRows = RowsReceived(Len(respLog))
        /\ pc = "fetching" => totalsAgg = TotalsReceived(Len(respLog))
        /\ pc = "done" =>
              /\ totalsAgg = RecomputeRoi(TotalsReceived(Len(respLog)))
              /\ dataSheet = ExpectedGrid(allRows, Columns(BatchVariant))

\* the first page of a combination came with a row and totals, its second
\* page threw, the next combination completed, and the run ended with the
\* rows and the totals of both pages that were fetched
C20_FirstPageOfFailedKept ==
    /\ cfg.variant = BatchVariant
    /\ pc = "done"
    /\ Len(respLog) = 3
    /\ Failures = <<2>>
    /\ reqLog[2].page = 2
    /\ respLog[1].total_metrics = SomeObj(TotalsOrders)
    /\ respLog[3].total_metrics = SomeObj(TotalsOrdersMore)
    /\ Len(dataSheet) = 3
    /\ Get(totalsAgg, "cost") = Int2Js(150)

\* the merge in which every (window, pair) query counts once: of the pages
\* of one combination only the first that carries totals is merged
RECURSIVE TotalsOncePerQuery(_)
TotalsOncePerQuery(n) ==
    IF n = 0 THEN EmptyObj
    ELSE IF \/ FetchThrows(respLog[n])
            \/ ~respLog[n].total_metrics.present
            \/ \E m \in 1..(n - 1) :
                  /\ <<reqLog[m].w, reqLog[m].p>> = <<reqLog[n].w, reqLog[n].p>>
                  /\ ~FetchThrows(respLog[m])
                  /\ respLog[m].total_metrics.present
         THEN TotalsOncePerQuery(n - 1)
         ELSE sumTotals_(TotalsOncePerQuery(n - 1), respLog[n].total_metrics.obj)

\* every page fetched for one combination carries the same totals object
SameTotalsOnEveryPage ==
    \A i, j \in 1..Len(respLog) :
        (/\ <<reqLog[i].w, reqLog[i].p>> = <<reqLog[j].w, reqLog[j].p>>
         /\ ~FetchThrows(respLog[i]) /\ ~FetchThrows(respLog[j])) =>
            /\ respLog[i].total_metrics.present
            /\ respLog[i].total_metrics = respLog[j].total_metrics

\* C14: when every page of a (window, pair) query carries the same totals
\* object, the accumulator of the batch run holds that object's values once
\* for the query, however many pages the query has.
C14_TotalsOncePerQuery ==
    (cfg.variant = BatchVariant /\ pc = "fetching" /\ SameTotalsOnEveryPage) =>
        totalsAgg = TotalsOncePerQuery(Len(respLog))

\* r is the number a / b of two finite numbers, b not zero
IsRatio(r, a, b) == isFinite(a) /\ isFinite(b) /\ ~IsZero(b) /\ IsQuotient(r, a, b)

\* the merged totals objects that carry a numeric roi
WithNumericRoi == {n \in 1..Len(merged) : Has(merged[n], "roi") /\ isFinite(num_(Get(merged[n], "roi")))}

\* C15: at the end of a batch run in which two or more totals objects with
\* a numeric roi were merged, the roi written to the totals tab is the
\* summed gross_revenue divided by the summed cost or by the summed
\* net_cost, whatever the cost and net_cost are, and never the sum of the
\* roi values.
C15_RoiNeverAdditive ==
    (cfg.variant = BatchVariant /\ pc = "done" /\ Cardinality(WithNumericRoi) >= 2) =>
        /\ TotalsTabHas("roi")
        /\ \/ IsRatio(TotalsCell("roi"), num_(Get(totalsAgg, "gross_revenue")),
                      num_(Get(totalsAgg, "cost")))
           \/ IsRatio(TotalsCell("roi"), num_(Get(totalsAgg, "gross_revenue")),
                      num_(Get(totalsAgg, "net_cost")))

\* C16: at the end of a batch run the cost_per_order written to the totals
\* tab is the summed cost divided by the summed orders, not the sum of the
\* cost_per_order values of the queries.
C16_RatiosRecomputed ==
    (/\ cfg.variant = BatchVariant
     /\ pc = "done"
     /\ TotalsTabHas("cost_per_order")
     /\ Len(merged) >= 2) =>
        IsRatio(TotalsCell("cost_per_order"), num_(Get(totalsAgg, "cost")),
                num_(Get(totalsAgg, "orders")))

\* the value the item carries for the column
SourceValue(item, col) ==
    IF col \in DimensionColumns THEN item.dimensions.obj.val[SourceField(col)]
    ELSE item.metrics.obj.val[SourceField(col)]

\* the item carries a value for the column
FieldCarried(item, col) ==
    /\ col \notin ConfigColumns
    /\ ~FieldAbsent(item, col)
    /\ SourceValue(item, col).t \notin {"null", "undefined"}

RowKeepsValues(row, item, columns) ==
    \A c \in 1..Len(columns) :
        FieldCarried(item, columns[c]) => row.val[columns[c]] = SourceValue(item, columns[c])

\* C17: a dimension or metric that an item carries appears in the
\* flattened row as it is, a metric of 0 as 0 and not as the empty string.
C17_PresentValuesKept ==
    cfg.variant \in {"ProductCampaignDaily", "LiveCampaignHourly", BatchVariant} =>
        \A i \in 1..Len(allRows) :
            RowKeepsValues(allRows[i], ItemsReceived(Len(respLog))[i], Columns(cfg.variant))

\* the sum of the numeric values merged for the key, every other value
\* counting as zero
RECURSIVE SumOfNumeric(_, _)
SumOfNumeric(k, n) ==
    IF n = 0 THEN 0
    ELSE SumOfNumeric(k, n - 1)
         + (IF Has(merged[n], k) /\ merged[n].val[k] \in NumericVals
            THEN Amount(merged[n].val[k]) ELSE 0)

\* C18: once a numeric value was merged for a key, the accumulator holds
\* for it the sum of the numeric values merged, whether a non-numeric value
\* was carried before (it counts as zero) or came after (it changes
\* nothing); so the value is a number from then on and does not depend on
\* the order of the merges.
C18_CarriedCountsAsZero ==
    (/\ pc = "merging"
     /\ \E n \in MergedWith("cost") : merged[n].val["cost"] \in NumericVals) =>
        Get(totalsAgg, "cost") = Int2Js(SumOfNumeric("cost", Len(merged)))

\* the page count a reported total_page stands for: 1 when it is missing,
\* null or 0
PagesMeant(tp) ==
    CASE tp \in {Undefined, Null, Int2Js(0)} -> 1
      [] tp = Str(<<"2">>) -> 2
      [] OTHER -> tp.p

\* the positions in the log of the requests of combination c
AsksOf(c) == {i \in 1..Len(reqLog) : <<reqLog[i].w, reqLog[i].p>> = c}

\* the largest page count reported for combination c so far, 1 at least
LargestReported(c) ==
    LET counts == {1} \cup {PagesMeant(respLog[i].total_page) :
                               i \in {j \in AnswersOf(c) : ~FetchThrows(respLog[j])}}
    IN CHOOSE n \in counts : \A m \in counts : m <= n

\* after the response to request i the loop stopped or went on by its own
\* page counter and that response's total_page alone
DecidedByLatest(i) ==
    LET c == <<reqLog[i].w, reqLog[i].p>>
        stop == respLog[i].total_page # Many
                    /\ reqLog[i].page >= PagesMeant(respLog[i].total_page)
    IN IF stop
       THEN \A j \in AsksOf(c) : j <= i
       ELSE /\ i + 1 \in AsksOf(c)
            /\ reqLog[i + 1].page = reqLog[i].page + 1

\* C21: the page loop stops after request p exactly when p >= total_page
\* of the response to it, a missing, null or 0 total_page standing for 1;
\* so a query whose reported page counts are all numbers is asked for no
\* more pages than the largest count reported, and for one at least.
C21_LoopBounded ==
    /\ \A i \in 1..Len(respLog) : ~FetchThrows(respLog[i]) => DecidedByLatest(i)
    /\ \A c \in Combinations :
          (\A i \in AnswersOf(c) : respLog[i].total_page # Many)
              => Cardinality(AsksOf(c)) <= LargestReported(c)

\* the first page reported three pages, the second reported none: the
\* loop ended after two requests
C21_ShrunkToZero ==
    /\ cfg.variant \in SingleVariants
    /\ pc = "done"
    /\ Len(reqLog) = 2 /\ Len(respLog) = 2
    /\ respLog[1].total_page = Int2Js(3)
    /\ respLog[2].total_page = Int2Js(0)

\* C22: when the range is empty (today's date is before START_FIXED) the
\* planner returns no window and the batch driver's first step is its last:
\* no request, no row added to the error log, no error, the data tab
\* overwritten with its header alone and the totals tab left as it was.
C22_EmptyRangeSilent ==
    /\ \A s \in START_FIXED..MaxStartDay : \A e \in -MaxStartDay..(s - 1) :
          buildDailyWindows_(s, e, TZ) = <<>>
    /\ (cfg.variant = BatchVariant /\ cfg.today < START_FIXED /\ pc # "start") =>
          /\ pc = "done"
          /\ windows = <<>>
          /\ reqLog = <<>> /\ respLog = <<>>
          /\ errSheet \in {<<>>, PriorErrors}
          /\ sinkLog = <<"writeRowsToSheet_">>
          /\ dataSheet = <<HeaderCells(Columns(BatchVariant))>>
          /\ totalsSheet = PriorTotals

\* a run that began the day before START_FIXED has ended
C22_RanBeforeStart ==
    /\ cfg.variant = BatchVariant
    /\ cfg.today = START_FIXED - 1
    /\ scriptTz = "Asia/Tokyo"
    /\ pc = "done"
    /\ Len(dataSheet) = 1

\* request j follows request i in the nested order: the next page of the
\* same combination, or page 1 of the next pair in the same window, or
\* page 1 of the first pair in the next window after the last pair
FollowsInOrder(i, j) ==
    \/ /\ reqLog[j].w = reqLog[i].w /\ reqLog[j].p = reqLog[i].p
       /\ reqLog[j].page = reqLog[i].page + 1
    \/ /\ reqLog[j].w = reqLog[i].w /\ reqLog[j].p = reqLog[i].p + 1
       /\ reqLog[j].page = 1
    \/ /\ reqLog[j].w = reqLog[i].w + 1 /\ reqLog[i].p = Len(pairs) /\ reqLog[j].p = 1
       /\ reqLog[j].page = 1

\* the totals of the responses received, in the order received
RECURSIVE TotalsInOrder(_)
TotalsInOrder(n) ==
    IF n = 0 THEN <<>>
    ELSE TotalsInOrder(n - 1)
         \o (IF FetchThrows(respLog[n]) \/ ~respLog[n].total_metrics.present THEN <<>>
             ELSE <<respLog[n].total_metrics.obj>>)

\* C23: the batch driver asks one request at a time, starting at page 1 of
\* the first pair in the first window and going on in the nested order
\* window, pair, page; each request is for the window and the pair its
\* indexes name, and the rows gathered and the totals merged follow the
\* order of the requests.
C23_FixedNestedOrder ==
    (cfg.variant = BatchVariant /\ reqLog # <<>>) =>
        /\ Len(respLog) <= Len(reqLog) /\ Len(reqLog) <= Len(respLog) + 1
        /\ reqLog[1].w = 1 /\ reqLog[1].p = 1 /\ reqLog[1].page = 1
        /\ \A i \in 1..(Len(reqLog) - 1) : FollowsInOrder(i, i + 1)
        /\ \A i \in 1..Len(reqLog) :
              /\ reqLog[i].start_date = windows[reqLog[i].w][1]
              /\ reqLog[i].end_date = windows[reqLog[i].w][2]
              /\ reqLog[i].advertiser_id = cfg.advertiser_ids[reqLog[i].p]
        /\ allRows = RowsReceived(Len(respLog))
        /\ merged = TotalsInOrder(Len(respLog))

\* two windows and two pairs: both pairs of the first window were asked
\* about before the first pair of the second window
C23_PairsBeforeNextWindow ==
    /\ cfg.variant = BatchVariant
    /\ Len(windows) = 2 /\ Len(pairs) = 2
    /\ Len(reqLog) = 3
    /\ <<reqLog[2].w, reqLog[2].p>> = <<1, 2>>
    /\ <<reqLog[3].w, reqLog[3].p>> = <<2, 1>>
    /\ Len(allRows) = 2

\* C24: in one run no page of a window and pair is asked for twice, and
\* after a request whose fetch threw there is no later request for the
\* same window and pair; in a single-query script the run has then failed
\* and that request was its last.
C24_NoRetry ==
    /\ \A i, j \in 1..Len(reqLog) :
          (i # j) => <<reqLog[i].w, reqLog[i].p, reqLog[i].page>>
                        # <<reqLog[j].w, reqLog[j].p, reqLog[j].page>>
    /\ \A i \in 1..Len(respLog) :
          FetchThrows(respLog[i]) =>
              /\ \A j \in (i + 1)..Len(reqLog) :
                    <<reqLog[j].w, reqLog[j].p>> # <<reqLog[i].w, reqLog[i].p>>
              /\ cfg.variant \in SingleVariants => (pc = "failed" /\ Len(reqLog) = i)

\* the second page of the first pair threw and the next request was for
\* the first page of the second pair
C24_FailedThenNextPair ==
    /\ cfg.variant = BatchVariant
    /\ Len(respLog) = 2 /\ Len(reqLog) = 3
    /\ ~FetchThrows(respLog[1])
    /\ FetchThrows(respLog[2])
    /\ reqLog[2].page = 2
    /\ <<reqLog[3].w, reqLog[3].p, reqLog[3].page>> = <<1, 2, 1>>

\* the totals object the run holds: the one captured by a single-query
\* script, the accumulator of the batch driver
TotalsHeld == IF cfg.variant \in SingleVariants THEN totalMetrics.obj ELSE totalsAgg

\* C25: writeTotalsSheet_ is called only when totals are enabled and the
\* totals object held has a key, so that the totals tab is left as it was
\* by a run whose responses carry only empty totals objects; with totals
\* disabled no request has enable_total_metrics and the tab is not touched.
C25_TotalsWrittenNonEmpty ==
    /\ TotalsWritten => (cfg.enable_total_metrics /\ Len(TotalsHeld.keys) > 0)
    /\ Len(TotalsHeld.keys) = 0 => totalsSheet = PriorTotals
    /\ ~cfg.enable_total_metrics =>
          /\ \A i \in 1..Len(reqLog) : ~reqLog[i].enable_total_metrics
          /\ ~TotalsWritten
          /\ totalsSheet = PriorTotals

====
